---- MODULE Spec2Model ----
(***************************************************************************)
(* Model of the kindest build engine (package pkg/kindest).                *)
(*                                                                         *)
(* Spec       : the Module scheduler (Module.Build, claim, subscribe,      *)
(*              broadcast, buildDependencies, doBuild) at the granularity  *)
(*              of atomic loads/stores, mutex sections and channel         *)
(*              operations: concurrent top-level Build calls on the root   *)
(*              of a graph with a shared dependency, in one engine run.    *)
(* SpecRuns   : successive engine runs that build a leaf module and share  *)
(*              the digest cache, with every failure doBuild can meet.     *)
(* SpecLegacy : the pool-recursive driver (Build / BuildEx /               *)
(*              buildDependencies and the command-line front-end), where   *)
(*              the pool's worker function itself is BuildEx.              *)
(***************************************************************************)
EXTENDS Integers, Sequences, FiniteSets, TLC

(***************************************************************************)
(* Bounds                                                                  *)
(***************************************************************************)
\* number of concurrent top-level callers of Build(root)
NumCallers == 2
\* largest pool capacity (BuildOptions.Concurrency / NewProcess argument) tried
MaxConcurrency == 2
\* number of engine runs (process invocations) sharing the digest cache
MaxRuns == 2
\* largest number of stderr lines of the in-pod builder
MaxLines == 2

(***************************************************************************)
(* The module graph                                                        *)
(***************************************************************************)
Root == "R"
Leaf == "B"
Modules == {"R", "A", "B", "C"}

\* The module graphs built: the declared dependencies of every module, in
\* declared order.  Shared: R -> [A, B], A -> [B] (B has two parents).
\* Fan: R -> [A, B] (A and B are independent of each other).
Shared == [m \in Modules |->
            IF m = "R" THEN <<"A", "B">> ELSE IF m = "A" THEN <<"B">> ELSE <<>>]
Fan == [m \in Modules |-> IF m = "R" THEN <<"A", "B">> ELSE <<>>]
Graphs == {Shared, Fan}

\* Nested: R -> [A, C], A -> [B] (B is a dependency of a dependency only,
\* C is independent of it).
Nested == [m \in Modules |->
            IF m = "R" THEN <<"A", "C">> ELSE IF m = "A" THEN <<"B">> ELSE <<>>]

\* Spec.Build.Before / Spec.Build.After: the hook commands of a module.
Before == <<"before1", "before2">>
After == <<"after1">>

\* BuildStatus values.
BuildStatusPending == "Pending"
BuildStatusInProgress == "InProgress"
BuildStatusFailed == "Failed"
BuildStatusSucceeded == "Succeeded"
Terminal == {BuildStatusFailed, BuildStatusSucceeded}

\* A nil error / a nil error pointer.  Error messages are non-empty token
\* sequences.
Nil == <<>>

\* Digests of build contexts; NoDigest is what CachedDigest yields ("") when
\* there is no readable record.
Digests == {"d1", "d2"}
NoDigest == ""

\* Values of BuildOptions.Builder.
Builders == {"", "docker", "kaniko", "bogus"}

(***************************************************************************)
(* Threads: the top-level callers and one coordination goroutine per       *)
(* declared dependency edge (spawned by the owner of the parent).          *)
(***************************************************************************)
RootCallers == {<<"top", Root, i>> : i \in 1..NumCallers}
LeafCallers == {<<"top", Leaf, 1>>}
Tops == RootCallers \cup LeafCallers
Edges == UNION {{<<"dep", m, i>> : i \in 1..Len(g[m])} : m \in Modules, g \in Graphs}
Threads == Tops \cup Edges

(***************************************************************************)
(* Error messages                                                          *)
(***************************************************************************)
\* fmt.Errorf(msg) with the message used as the format string and no
\* arguments: "%%" prints "%", "%" followed by a verb prints
\* "%!verb(MISSING)", a trailing "%" prints "%!(NOVERB)".
RECURSIVE Errorf(_)
Errorf(s) ==
    IF s = <<>> THEN <<>>
    ELSE IF Head(s) # "%" THEN <<Head(s)>> \o Errorf(Tail(s))
    ELSE IF Len(s) = 1 THEN <<"%!(NOVERB)">>
    ELSE IF s[2] = "%" THEN <<"%">> \o Errorf(Tail(Tail(s)))
    ELSE <<"%!", s[2], "(MISSING)">> \o Errorf(Tail(Tail(s)))

\* Messages a failing backend may report (one of them contains a verb).
BackendMessages == {<<"exit 1">>, <<"printf ", "%", "d", " failed">>}

\* fmt.Errorf("%s: %v", dependency.Dir, err)
WrapDependency(dir, msg) == <<dir, ": ">> \o msg

RECURSIVE Points(_)
Points(es) ==
    IF es = <<>> THEN <<>>
    ELSE <<"\n\t* ">> \o Head(es) \o Points(Tail(es))

\* (*multierror.Error).Error() with the default format function.
MultiError(es) ==
    IF es = <<>> THEN Nil
    ELSE <<IF Len(es) = 1 THEN "1 error occurred:"
           ELSE ToString(Len(es)) \o " errors occurred:">>
         \o Points(es) \o <<"\n\n">>

(***************************************************************************)
(* State of the Module scheduler                                           *)
(***************************************************************************)
VARIABLES
    deps,          \* Module.Dependencies of every module (the graph loaded)
    status,        \* Module.status (atomic int32)
    err,           \* Module.err: Nil, or the boxed message
    subscribers,   \* Module.subscribers: the waiting threads' channels
    subscribersL,  \* Module.subscribersL: the thread holding the mutex
    pc,            \* position of every thread
    ret,           \* value returned by the thread's Module.Build call
    idx,           \* collectErrors: index of the next done channel to read
    multi,         \* collectErrors: the entries appended so far
    chanBuf,       \* WaitForCompletion: buffer of the thread's done channel
    chanClosed,    \* WaitForCompletion: whether that channel was closed
    doneBuf,       \* buildDependencies: buffer of dones[i] of an edge
    job,           \* position of the pool job (doBuild) of a module
    jobRes,        \* result of the pool job
    cache,         \* digest cache on disk, per module directory
    ctx,           \* digest of the module's current build context
    options,       \* BuildOptions of the run, with the pool capacity
    hasBuild,      \* whether the root manifest has a build block
    run,           \* number of the engine run
    claims,        \* history: number of threads that won claim()
    ownerRet,      \* history: <<err>> the owner passed to broadcast, or <<>>
    backendCalls,  \* history: backend invocations in this run
    hooksRun,      \* history: hook commands executed in this run
    faults,        \* the kinds of failure the environment of the run produces
    owner,         \* history: the thread that won claim()
    chanSends,     \* history: number of values sent on the thread's channel
    compared,      \* history: <<digest, cachedDigest>> doBuild compared
    prev,          \* history: outcome and context digest of the previous run,
                   \* and the digest record it left on disk
    frontend,      \* pool-recursive driver: "cmd" (RunE) or "Build"
    lpc,           \* pool-recursive driver: position of every BuildEx call
    lres,          \* pool-recursive driver: error returned by the BuildEx call
    lidx,          \* pool-recursive driver: next done channel to read
    lmulti,        \* pool-recursive driver: entries of the aggregated error
    ldone,         \* pool-recursive driver: buffer of dones[i] of an edge
    manifest,      \* the kindest.yaml of every module directory, as on disk
    kpc,           \* buildKaniko: position of the call
    kcode,         \* buildKaniko: exit code of the in-pod builder
    kstderr,       \* buildKaniko: the lines the in-pod builder writes to stderr
    kexec,         \* buildKaniko: how execInPod ended
    kpods,         \* buildKaniko: executor pods of this build in the cluster
    kdeletes,      \* buildKaniko: history, <<ok>> per pods.Delete request
    kerr,          \* buildKaniko: the error returned
    dpc,           \* engine invocations on one directory: position in doBuild
    dnew,          \* engine invocations: the digest of the context each sees
    dseen,         \* engine invocations: <<body, err>> CachedDigest returned
    disk,          \* context directory: content of every file
    ignore,        \* context directory: the patterns of .dockerignore
    recipe,        \* the COPY/ADD directives of the Dockerfile, as source lists
    dockerfile,    \* relativeDockerfile: the Dockerfile relative to the context
    bpc,           \* loadBuildContext / Digest: position
    binclude,      \* createDockerInclude: addedPaths
    bctx,          \* the BuildContext assembled: entry -> content, or "dir"
    bdigest,       \* the digest computed, as the stream that is hashed
    bprev,         \* history: the digest of the assembly before the edit
    bedit,         \* history: the file edited between the two assemblies
    cpc,           \* nested BuildEx calls: position of every call
    cres,          \* nested BuildEx calls: the error every call returned
    tree,          \* manifests on disk: directory -> declared dependency paths
    modules,       \* resolver.modules: manifest path -> Module
    resolving,     \* manifest paths marked as being resolved
    created,       \* the Modules created so far, each with its Dir
    gpc,           \* GetModule callers: position
    garg,          \* GetModule callers: the path passed
    gcur,          \* GetModule callers: the path of the call being made
    gstack,        \* GetModule callers: modules whose dependencies are expanded
    gret,          \* GetModule callers: the Module returned
    gerr           \* GetModule callers: the error returned

schedVars == <<status, err, subscribers, subscribersL, pc, ret, idx, multi,
               chanBuf, chanClosed, chanSends, doneBuf>>
jobVars == <<job, jobRes, cache, backendCalls, hooksRun, compared>>
kanikoVars == <<kpc, kcode, kstderr, kexec, kpods, kdeletes, kerr>>
digestVars == <<dpc, dnew, dseen>>
contextVars == <<disk, ignore, recipe, dockerfile, bpc, binclude, bctx, bdigest,
                 bprev, bedit>>
nestedVars == <<cpc, cres>>
registryVars == <<tree, modules, resolving, created, gpc, garg, gcur, gstack, gret, gerr>>
envVars == <<deps, ctx, options, hasBuild, run, faults, prev, kanikoVars, manifest,
             digestVars, contextVars, nestedVars, registryVars>>
legacyVars == <<frontend, lpc, lres, lidx, lmulti, ldone>>
runVars == <<envVars, legacyVars>>
histVars == <<claims, owner, ownerRet>>
vars == <<schedVars, jobVars, runVars, histVars>>

NoThread == <<"none", "", 0>>

\* Module.Dependencies
Dependencies(m) == deps[m]

\* The module a thread calls Build on: the root or leaf for a top-level
\* caller, the i-th dependency of its parent for a coordination goroutine.
Target(t) == IF t[1] = "top" THEN t[2] ELSE Dependencies(t[2])[t[3]]

\* The threads that can exist with the graph loaded.
Live == Tops \cup {t \in Edges : t[3] <= Len(Dependencies(t[2]))}

\* Module.Spec.Build != nil
HasBuildBlock(m) == IF m = Root THEN hasBuild ELSE TRUE

\* Module.Status()
Status(m) == status[m]

Crashed == \E t \in Threads : pc[t] = "panic"

OptionSets ==
    [NoCache : BOOLEAN, SkipHooks : BOOLEAN, Builder : Builders,
     Concurrency : 1..MaxConcurrency]

\* A freshly started engine process: every module Pending, no thread started.
FreshProcess ==
    /\ status = [m \in Modules |-> BuildStatusPending]
    /\ err = [m \in Modules |-> Nil]
    /\ subscribers = [m \in Modules |-> <<>>]
    /\ subscribersL = [m \in Modules |-> NoThread]
    /\ pc = [t \in Threads |-> IF t \in Tops THEN "call" ELSE "idle"]
    /\ ret = [t \in Threads |-> Nil]
    /\ idx = [t \in Threads |-> 0]
    /\ multi = [t \in Threads |-> <<>>]
    /\ chanBuf = [t \in Threads |-> <<>>]
    /\ chanClosed = [t \in Threads |-> FALSE]
    /\ doneBuf = [t \in Edges |-> <<>>]
    /\ job = [m \in Modules |-> "none"]
    /\ jobRes = [m \in Modules |-> Nil]
    /\ claims = [m \in Modules |-> 0]
    /\ ownerRet = [m \in Modules |-> <<>>]
    /\ backendCalls = [m \in Modules |-> 0]
    /\ hooksRun = [m \in Modules |-> <<>>]
    /\ owner = [m \in Modules |-> NoThread]
    /\ chanSends = [t \in Threads |-> 0]
    /\ compared = [m \in Modules |-> <<>>]
    /\ lres = [t \in Threads |-> Nil]
    /\ lidx = [t \in Threads |-> 0]
    /\ lmulti = [t \in Threads |-> <<>>]
    /\ ldone = [t \in Edges |-> <<>>]

\* A manifest: whether the file exists, whether its build block has a
\* docker block, the image name ("" when absent) and whether the Dockerfile
\* the docker block points to (default "Dockerfile") exists.
ValidManifest == [exists |-> TRUE, docker |-> TRUE, name |-> "img", dockerfile |-> TRUE]

\* The manifests tried: a valid one, no file, a missing Dockerfile,
\* "build: {}", a docker block without image name, a name without docker
\* block.
Manifests ==
    {ValidManifest,
     [ValidManifest EXCEPT !.exists = FALSE],
     [ValidManifest EXCEPT !.dockerfile = FALSE],
     [ValidManifest EXCEPT !.docker = FALSE, !.name = ""],
     [ValidManifest EXCEPT !.name = ""],
     [ValidManifest EXCEPT !.docker = FALSE]}

ValidManifests == [m \in Modules |-> ValidManifest]

\* A project in which at most one manifest is not the valid one.
Projects ==
    {[ValidManifests EXCEPT ![m] = f] : m \in Modules, f \in Manifests}

\* Engine invocations (processes) started on the same module directory.
Engines == {"e1", "e2"}

\* No cluster build has been started, and no second engine invocation.
NoKaniko ==
    /\ dpc = [e \in Engines |-> "done"]
    /\ dnew = [e \in Engines |-> "d1"]
    /\ dseen = [e \in Engines |-> <<>>]
    /\ kpc = "idle"
    /\ kcode = 0
    /\ kstderr = <<>>
    /\ kexec = "none"
    /\ kpods = 0
    /\ kdeletes = <<>>
    /\ kerr = Nil

\* No BuildEx call is nested.
NoNested ==
    /\ cpc = <<>>
    /\ cres = <<>>

\* No manifest has been resolved.
NoRegistry ==
    /\ tree = <<>>
    /\ modules = <<>>
    /\ resolving = {}
    /\ created = <<>>
    /\ gpc = <<>>
    /\ garg = <<>>
    /\ gcur = <<>>
    /\ gstack = <<>>
    /\ gret = <<>>
    /\ gerr = <<>>

\* No build context is being assembled.
IdleContext ==
    /\ disk = <<>>
    /\ ignore = {}
    /\ recipe = <<>>
    /\ dockerfile = <<>>
    /\ bpc = "idle"
    /\ binclude = <<>>
    /\ bctx = <<>>
    /\ bdigest = {}
    /\ bprev = {}
    /\ bedit = <<>>

\* No build context is being assembled, no BuildEx call is nested and no
\* manifest has been resolved.
NoContext ==
    /\ IdleContext
    /\ NoNested
    /\ NoRegistry

\* Failures of the environment: a hook command exiting non-zero, the build
\* context failing to load, the digest record being unreadable, the backend
\* failing, the digest record failing to be written.
AllFaults == {"hook", "load", "read", "backend", "write"}

\* The local image daemon is not reachable: cli.ImageBuild of buildDocker
\* returns a connection error.
DaemonDown == "daemon"

\* No previous run.
NoPrev == [m \in Modules |-> [ok |-> FALSE, digest |-> NoDigest, record |-> NoDigest]]

\* One engine run on an empty digest cache; the backend may fail.
Init ==
    /\ FreshProcess
    /\ NoContext
    /\ NoKaniko
    /\ manifest = ValidManifests
    /\ cache = [m \in Modules |-> NoDigest]
    /\ ctx = [m \in Modules |-> "d1"]
    /\ options \in {o \in OptionSets :
                      ~o.NoCache /\ ~o.SkipHooks /\ o.Builder \in {"docker", "bogus"}}
    /\ deps \in Graphs
    /\ hasBuild \in BOOLEAN
    /\ faults = {"backend"}
    /\ run = 1
    /\ prev = NoPrev
    /\ frontend = "Build"
    /\ lpc = [t \in Threads |-> "idle"]

\* The first of several engine runs; anything may fail.
InitRuns ==
    /\ FreshProcess
    /\ NoContext
    /\ NoKaniko
    /\ manifest = ValidManifests
    /\ cache = [m \in Modules |-> NoDigest]
    /\ ctx = [m \in Modules |-> "d1"]
    /\ options \in OptionSets
    /\ deps = Shared
    /\ hasBuild = TRUE
    /\ faults \in {AllFaults, AllFaults \cup {DaemonDown}}
    /\ run = 1
    /\ prev = NoPrev
    /\ frontend = "Build"
    /\ lpc = [t \in Threads |-> "idle"]

(***************************************************************************)
(* Module.Build: the claim and the paths of the threads that lose it       *)
(***************************************************************************)
\* claim() as a load followed by a store instead of one compare-and-swap:
\* a thread that loaded Pending before another thread's store still wins.
claimLoadThenStore(t) ==
    LET m == Target(t) IN
    /\ ~Crashed
    /\ pc[t] = "call"
    /\ status[m] \in {BuildStatusPending, BuildStatusInProgress}
    /\ status' = [status EXCEPT ![m] = BuildStatusInProgress]
    /\ pc' = [pc EXCEPT ![t] = "deps"]
    /\ claims' = [claims EXCEPT ![m] = @ + 1]
    /\ owner' = [owner EXCEPT ![m] = t]
    /\ UNCHANGED <<err, subscribers, subscribersL, ret, idx, multi,
                   chanBuf, chanClosed, chanSends, doneBuf, ownerRet>>
    /\ UNCHANGED <<jobVars, runVars>>

\* claim() that also takes over a module that has Failed (a retry).
claimRetriesFailed(t) ==
    LET m == Target(t) IN
    /\ ~Crashed
    /\ pc[t] = "call"
    /\ IF status[m] \in {BuildStatusPending, BuildStatusFailed}
       THEN /\ status' = [status EXCEPT ![m] = BuildStatusInProgress]
            /\ pc' = [pc EXCEPT ![t] = "deps"]
            /\ claims' = [claims EXCEPT ![m] = @ + 1]
            /\ owner' = [owner EXCEPT ![m] = t]
       ELSE /\ pc' = [pc EXCEPT ![t] = "status"]
            /\ UNCHANGED <<status, claims, owner>>
    /\ UNCHANGED <<err, subscribers, subscribersL, ret, idx, multi,
                   chanBuf, chanClosed, chanSends, doneBuf, ownerRet>>
    /\ UNCHANGED <<jobVars, runVars>>

\* Module.Build calls Module.claim(): CompareAndSwap(status, Pending,
\* InProgress); the winner goes on to buildDependencies, a loser to the
\* switch on m.Status().
claim(t) ==
    LET m == Target(t) IN
    /\ ~Crashed
    /\ pc[t] = "call"
    /\ IF status[m] = BuildStatusPending
       THEN /\ status' = [status EXCEPT ![m] = BuildStatusInProgress]
            /\ pc' = [pc EXCEPT ![t] = "deps"]
            /\ claims' = [claims EXCEPT ![m] = @ + 1]
            /\ owner' = [owner EXCEPT ![m] = t]
       ELSE /\ pc' = [pc EXCEPT ![t] = "status"]
            /\ UNCHANGED <<status, claims, owner>>
    /\ UNCHANGED <<err, subscribers, subscribersL, ret, idx, multi,
                   chanBuf, chanClosed, chanSends, doneBuf, ownerRet>>
    /\ UNCHANGED <<jobVars, runVars>>

\* Module.Build returning nil, instead of waiting, when the module is
\* InProgress.
LoadStatusWithoutWaiting(t) ==
    LET m == Target(t) IN
    /\ ~Crashed
    /\ pc[t] = "status"
    /\ pc' = [pc EXCEPT ![t] =
                IF Status(m) = BuildStatusFailed THEN "loaderr"
                ELSE IF Status(m) \in {BuildStatusSucceeded, BuildStatusInProgress}
                THEN "ret"
                ELSE "panic"]
    /\ ret' = [ret EXCEPT ![t] = Nil]
    /\ UNCHANGED <<status, err, subscribers, subscribersL, idx, multi,
                   chanBuf, chanClosed, chanSends, doneBuf>>
    /\ UNCHANGED <<jobVars, runVars, histVars>>

\* Module.Build, switch m.Status() after a lost claim (lock-free load).
LoadStatus(t) ==
    LET m == Target(t) IN
    /\ ~Crashed
    /\ pc[t] = "status"
    /\ pc' = [pc EXCEPT ![t] =
                IF Status(m) = BuildStatusInProgress THEN "wait"
                ELSE IF Status(m) = BuildStatusFailed THEN "loaderr"
                ELSE IF Status(m) = BuildStatusSucceeded THEN "ret"
                ELSE "panic"]
    /\ ret' = [ret EXCEPT ![t] = Nil]
    /\ UNCHANGED <<status, err, subscribers, subscribersL, idx, multi,
                   chanBuf, chanClosed, chanSends, doneBuf>>
    /\ UNCHANGED <<jobVars, runVars, histVars>>

\* Module.Build, case BuildStatusFailed: atomic.LoadPointer(&m.err); a nil
\* box panics, otherwise the call returns fmt.Errorf(*box).
LoadErr(t) ==
    LET m == Target(t) IN
    /\ ~Crashed
    /\ pc[t] = "loaderr"
    /\ IF err[m] = Nil
       THEN /\ pc' = [pc EXCEPT ![t] = "panic"]
            /\ UNCHANGED ret
       ELSE /\ pc' = [pc EXCEPT ![t] = "ret"]
            /\ ret' = [ret EXCEPT ![t] = Errorf(err[m])]
    /\ UNCHANGED <<status, err, subscribers, subscribersL, idx, multi,
                   chanBuf, chanClosed, chanSends, doneBuf>>
    /\ UNCHANGED <<jobVars, runVars, histVars>>

\* subscribe appending the channel twice while the module is InProgress.
subscribeRegistersTwice(t) ==
    LET m == Target(t) IN
    /\ ~Crashed
    /\ pc[t] = "wait"
    /\ subscribersL[m] = NoThread
    /\ subscribers' = [subscribers EXCEPT ![m] =
            IF Status(m) = BuildStatusInProgress THEN Append(Append(@, t), t) ELSE @]
    /\ chanBuf' = [chanBuf EXCEPT ![t] =
            IF Status(m) = BuildStatusFailed THEN Append(@, Errorf(err[m]))
            ELSE IF Status(m) = BuildStatusSucceeded THEN Append(@, Nil)
            ELSE @]
    /\ chanSends' = [chanSends EXCEPT ![t] =
            IF Status(m) \in Terminal THEN @ + 1 ELSE @]
    /\ pc' = [pc EXCEPT ![t] =
            IF Status(m) = BuildStatusPending THEN "panic" ELSE "recv"]
    /\ UNCHANGED <<status, err, subscribersL, ret, idx, multi,
                   chanClosed, doneBuf>>
    /\ UNCHANGED <<jobVars, runVars, histVars>>

\* subscribe registering the channel whatever the status is: after the
\* broadcast nobody is left to send on it.
subscribeAlwaysRegisters(t) ==
    LET m == Target(t) IN
    /\ ~Crashed
    /\ pc[t] = "wait"
    /\ subscribersL[m] = NoThread
    /\ subscribers' = [subscribers EXCEPT ![m] = Append(@, t)]
    /\ pc' = [pc EXCEPT ![t] =
            IF Status(m) = BuildStatusPending THEN "panic" ELSE "recv"]
    /\ UNCHANGED <<status, err, subscribersL, ret, idx, multi,
                   chanBuf, chanSends, chanClosed, doneBuf>>
    /\ UNCHANGED <<jobVars, runVars, histVars>>

\* Module.WaitForCompletion up to the receive: make(chan error, 1) and
\* Module.subscribe(done), one critical section of subscribersL.
subscribe(t) ==
    LET m == Target(t) IN
    /\ ~Crashed
    /\ pc[t] = "wait"
    /\ subscribersL[m] = NoThread
    /\ subscribers' = [subscribers EXCEPT ![m] =
            IF Status(m) = BuildStatusInProgress THEN Append(@, t) ELSE @]
    /\ chanBuf' = [chanBuf EXCEPT ![t] =
            IF Status(m) = BuildStatusFailed THEN Append(@, Errorf(err[m]))
            ELSE IF Status(m) = BuildStatusSucceeded THEN Append(@, Nil)
            ELSE @]
    /\ chanSends' = [chanSends EXCEPT ![t] =
            IF Status(m) \in Terminal THEN @ + 1 ELSE @]
    /\ pc' = [pc EXCEPT ![t] =
            IF Status(m) = BuildStatusPending THEN "panic" ELSE "recv"]
    /\ UNCHANGED <<status, err, subscribersL, ret, idx, multi,
                   chanClosed, doneBuf>>
    /\ UNCHANGED <<jobVars, runVars, histVars>>

\* Module.WaitForCompletion: return <-done.
WaitForCompletion(t) ==
    /\ ~Crashed
    /\ pc[t] = "recv"
    /\ chanBuf[t] # <<>>
    /\ ret' = [ret EXCEPT ![t] = Head(chanBuf[t])]
    /\ chanBuf' = [chanBuf EXCEPT ![t] = Tail(@)]
    /\ pc' = [pc EXCEPT ![t] = "ret"]
    /\ UNCHANGED <<status, err, subscribers, subscribersL, idx, multi,
                   chanClosed, chanSends, doneBuf>>
    /\ UNCHANGED <<jobVars, runVars, histVars>>

(***************************************************************************)
(* Module.Build: the owner                                                 *)
(***************************************************************************)
\* The coordination goroutines of the dependencies of m, in declared order.
EdgesOf(m) == [i \in 1..Len(Dependencies(m)) |-> <<"dep", m, i>>]

\* Module.buildDependencies: one done channel and one goroutine per
\* dependency; each goroutine starts with dependency.Build(options).
buildDependencies(t) ==
    LET m == Target(t) IN
    /\ ~Crashed
    /\ pc[t] = "deps"
    /\ pc' = [u \in Threads |->
                IF u = t THEN "collect"
                ELSE IF u \in Live /\ u[1] = "dep" /\ u[2] = m THEN "call"
                ELSE pc[u]]
    /\ idx' = [idx EXCEPT ![t] = 1]
    /\ multi' = [multi EXCEPT ![t] = <<>>]
    /\ UNCHANGED <<status, err, subscribers, subscribersL, ret,
                   chanBuf, chanClosed, chanSends, doneBuf>>
    /\ UNCHANGED <<jobVars, runVars, histVars>>

\* The goroutine of buildDependencies sending nil on done whatever
\* dependency.Build returned.
FinishDependencyDropsError(t) ==
    /\ ~Crashed
    /\ t \in Edges
    /\ pc[t] = "ret"
    /\ doneBuf[t] = <<>>
    /\ doneBuf' = [doneBuf EXCEPT ![t] = <<Nil>>]
    /\ pc' = [pc EXCEPT ![t] = "end"]
    /\ UNCHANGED <<status, err, subscribers, subscribersL, ret, idx, multi,
                   chanBuf, chanClosed, chanSends>>
    /\ UNCHANGED <<jobVars, runVars, histVars>>

\* The goroutine of buildDependencies after dependency.Build returned:
\* wrap a non-nil error with the dependency's directory, done <- err,
\* close(done).
FinishDependency(t) ==
    /\ ~Crashed
    /\ t \in Edges
    /\ pc[t] = "ret"
    /\ doneBuf[t] = <<>>
    /\ doneBuf' = [doneBuf EXCEPT ![t] =
            <<IF ret[t] = Nil THEN Nil ELSE WrapDependency(Target(t), ret[t])>>]
    /\ pc' = [pc EXCEPT ![t] = "end"]
    /\ UNCHANGED <<status, err, subscribers, subscribersL, ret, idx, multi,
                   chanBuf, chanClosed, chanSends>>
    /\ UNCHANGED <<jobVars, runVars, histVars>>

\* collectErrors returning at the first non-nil error, without reading the
\* done channels that follow.
collectErrorsFailFast(t) ==
    LET m == Target(t)
        e == EdgesOf(m)[idx[t]]
    IN
    /\ ~Crashed
    /\ pc[t] = "collect"
    /\ idx[t] <= Len(Dependencies(m))
    /\ doneBuf[e] # <<>>
    /\ multi' = [multi EXCEPT ![t] =
            IF Head(doneBuf[e]) = Nil THEN @ ELSE Append(@, Head(doneBuf[e]))]
    /\ doneBuf' = [doneBuf EXCEPT ![e] = Tail(@)]
    /\ idx' = [idx EXCEPT ![t] =
            IF Head(doneBuf[e]) = Nil THEN @ + 1 ELSE Len(Dependencies(m)) + 1]
    /\ UNCHANGED <<status, err, subscribers, subscribersL, pc, ret,
                   chanBuf, chanClosed, chanSends>>
    /\ UNCHANGED <<jobVars, runVars, histVars>>

\* collectErrors receiving from whichever done channel is ready, so that
\* the entries are appended in the order of completion.
collectErrorsAsCompleted(t) ==
    LET m == Target(t) IN
    /\ ~Crashed
    /\ pc[t] = "collect"
    /\ idx[t] <= Len(Dependencies(m))
    /\ \E i \in 1..Len(Dependencies(m)) :
        LET e == EdgesOf(m)[i] IN
        /\ doneBuf[e] # <<>>
        /\ multi' = [multi EXCEPT ![t] =
                IF Head(doneBuf[e]) = Nil THEN @ ELSE Append(@, Head(doneBuf[e]))]
        /\ doneBuf' = [doneBuf EXCEPT ![e] = Tail(@)]
    /\ idx' = [idx EXCEPT ![t] = @ + 1]
    /\ UNCHANGED <<status, err, subscribers, subscribersL, pc, ret,
                   chanBuf, chanClosed, chanSends>>
    /\ UNCHANGED <<jobVars, runVars, histVars>>

\* collectErrors: one iteration, err := <-dones[i], appended when non-nil.
collectErrors(t) ==
    LET m == Target(t)
        e == EdgesOf(m)[idx[t]]
    IN
    /\ ~Crashed
    /\ pc[t] = "collect"
    /\ idx[t] <= Len(Dependencies(m))
    /\ doneBuf[e] # <<>>
    /\ multi' = [multi EXCEPT ![t] =
            IF Head(doneBuf[e]) = Nil THEN @ ELSE Append(@, Head(doneBuf[e]))]
    /\ doneBuf' = [doneBuf EXCEPT ![e] = Tail(@)]
    /\ idx' = [idx EXCEPT ![t] = @ + 1]
    /\ UNCHANGED <<status, err, subscribers, subscribersL, pc, ret,
                   chanBuf, chanClosed, chanSends>>
    /\ UNCHANGED <<jobVars, runVars, histVars>>

\* Module.Build going on to pool.Process whatever buildDependencies
\* returned.
AfterDependenciesIgnoringError(t) ==
    LET m == Target(t) IN
    /\ ~Crashed
    /\ pc[t] = "collect"
    /\ idx[t] > Len(Dependencies(m))
    /\ HasBuildBlock(m)
    /\ pc' = [pc EXCEPT ![t] = "submit"]
    /\ UNCHANGED <<status, err, subscribers, subscribersL, ret, idx, multi,
                   chanBuf, chanClosed, chanSends, doneBuf>>
    /\ UNCHANGED <<jobVars, runVars, histVars>>

\* Module.Build without the test of m.Spec.Build: a job is submitted for
\* every module whose dependencies succeeded.
AfterDependenciesAlwaysSubmits(t) ==
    LET m == Target(t) IN
    /\ ~Crashed
    /\ pc[t] = "collect"
    /\ idx[t] > Len(Dependencies(m))
    /\ IF MultiError(multi[t]) # Nil
       THEN /\ ret' = [ret EXCEPT ![t] = MultiError(multi[t])]
            /\ pc' = [pc EXCEPT ![t] = "broadcast"]
            /\ ownerRet' = [ownerRet EXCEPT ![m] = <<MultiError(multi[t])>>]
       ELSE /\ pc' = [pc EXCEPT ![t] = "submit"]
            /\ UNCHANGED <<ret, ownerRet>>
    /\ UNCHANGED <<status, err, subscribers, subscribersL, idx, multi,
                   chanBuf, chanClosed, chanSends, doneBuf, claims, owner>>
    /\ UNCHANGED <<jobVars, runVars>>

\* Module.Build after buildDependencies returned: return the aggregated
\* error, or nil when there is no build block, or go on to pool.Process.
\* The deferred broadcast runs with the value returned.
AfterDependencies(t) ==
    LET m == Target(t) IN
    /\ ~Crashed
    /\ pc[t] = "collect"
    /\ idx[t] > Len(Dependencies(m))
    /\ IF MultiError(multi[t]) # Nil
       THEN /\ ret' = [ret EXCEPT ![t] = MultiError(multi[t])]
            /\ pc' = [pc EXCEPT ![t] = "broadcast"]
            /\ ownerRet' = [ownerRet EXCEPT ![m] = <<MultiError(multi[t])>>]
       ELSE IF ~HasBuildBlock(m)
       THEN /\ ret' = [ret EXCEPT ![t] = Nil]
            /\ pc' = [pc EXCEPT ![t] = "broadcast"]
            /\ ownerRet' = [ownerRet EXCEPT ![m] = <<Nil>>]
       ELSE /\ pc' = [pc EXCEPT ![t] = "submit"]
            /\ UNCHANGED <<ret, ownerRet>>
    /\ UNCHANGED <<status, err, subscribers, subscribersL, idx, multi,
                   chanBuf, chanClosed, chanSends, doneBuf, claims, owner>>
    /\ UNCHANGED <<jobVars, runVars>>

(***************************************************************************)
(* The pool job: Module.doBuild run by a worker of m.pool                  *)
(***************************************************************************)
\* Positions of a job at which a pool worker is executing doBuild.
Running == {"before", "context", "backend", "after"}

\* Number of pool workers executing a job.
BusyWorkers == Cardinality({m \in Modules : job[m] \in Running})

\* tunny: Process hands the payload to a free worker, or blocks.
WorkerAvailable == BusyWorkers < options.Concurrency

\* Module.Build calling m.doBuild(options) itself instead of submitting the
\* job to the pool.
ProcessOutsidePool(t) ==
    LET m == Target(t) IN
    /\ ~Crashed
    /\ pc[t] = "submit"
    /\ job' = [job EXCEPT ![m] = "before"]
    /\ pc' = [pc EXCEPT ![t] = "process"]
    /\ UNCHANGED <<status, err, subscribers, subscribersL, ret, idx, multi,
                   chanBuf, chanClosed, chanSends, doneBuf>>
    /\ UNCHANGED <<jobRes, cache, backendCalls, hooksRun, compared>>
    /\ UNCHANGED <<runVars, histVars>>

\* Module.Build: m.pool.Process(&buildJob{m, options}), up to the hand-over
\* of the job to a worker.
Process(t) ==
    LET m == Target(t) IN
    /\ ~Crashed
    /\ pc[t] = "submit"
    /\ WorkerAvailable
    /\ job' = [job EXCEPT ![m] = "before"]
    /\ pc' = [pc EXCEPT ![t] = "process"]
    /\ UNCHANGED <<status, err, subscribers, subscribersL, ret, idx, multi,
                   chanBuf, chanClosed, chanSends, doneBuf>>
    /\ UNCHANGED <<jobRes, cache, backendCalls, hooksRun, compared>>
    /\ UNCHANGED <<runVars, histVars>>

\* runCommands: the commands executed, each with the exit status of its
\* cmd.Run(), when command number f is the first to exit non-zero (f = 0:
\* none fails).
Executed(commands, f) ==
    [i \in 1..(IF f = 0 THEN Len(commands) ELSE f) |->
        [command |-> commands[i], exit |-> IF i = f THEN 1 ELSE 0]]

\* The outcomes of runCommands the environment allows.
HookOutcomes(commands) == IF "hook" \in faults THEN 0..Len(commands) ELSE {0}

\* The pre-build hooks with the error of runCommands dropped: doBuild goes
\* on to the build context after a failing command.
runBeforeIgnoringFailure(m) ==
    /\ ~Crashed
    /\ job[m] = "before"
    /\ job' = [job EXCEPT ![m] = "context"]
    /\ IF options.SkipHooks
       THEN UNCHANGED hooksRun
       ELSE \E f \in HookOutcomes(Before) :
            hooksRun' = [hooksRun EXCEPT ![m] = @ \o Executed(Before, f)]
    /\ UNCHANGED <<jobRes, cache, backendCalls, compared>>
    /\ UNCHANGED <<schedVars, runVars, histVars>>

\* Module.doBuild, the pre-build hooks.
runBefore(m) ==
    /\ ~Crashed
    /\ job[m] = "before"
    /\ IF options.SkipHooks
       THEN /\ job' = [job EXCEPT ![m] = "context"]
            /\ UNCHANGED <<hooksRun, jobRes>>
       ELSE \E f \in HookOutcomes(Before) :
            /\ hooksRun' = [hooksRun EXCEPT ![m] = @ \o Executed(Before, f)]
            /\ job' = [job EXCEPT ![m] = IF f = 0 THEN "context" ELSE "finished"]
            /\ jobRes' = [jobRes EXCEPT ![m] =
                    IF f = 0 THEN @
                    ELSE <<"pre-build hook failure: ", "exit status 1">>]
    /\ UNCHANGED <<cache, backendCalls, compared>>
    /\ UNCHANGED <<schedVars, runVars, histVars>>

\* Module.CachedDigest: the record, or "" with ErrModuleNotCached when the
\* file cannot be read.
CachedDigest(m, readable) == IF readable THEN cache[m] ELSE NoDigest

\* doBuild without the digest comparison: the backend is called whatever
\* the cache holds.
loadContextIgnoringCache(m) ==
    /\ ~Crashed
    /\ job[m] = "context"
    /\ \E readable \in {TRUE} \cup {FALSE : x \in faults \cap {"read"}} :
        compared' = [compared EXCEPT ![m] = <<ctx[m], CachedDigest(m, readable)>>]
    /\ job' = [job EXCEPT ![m] = "backend"]
    /\ UNCHANGED <<jobRes, cache, backendCalls, hooksRun>>
    /\ UNCHANGED <<schedVars, runVars, histVars>>

\* doBuild returning the error of CachedDigest whatever it is: a record
\* that cannot be read ends the build.
loadContextStrictCache(m) ==
    /\ ~Crashed
    /\ job[m] = "context"
    /\ \E readable \in {TRUE} \cup {FALSE : x \in faults \cap {"read"}} :
        /\ compared' = [compared EXCEPT ![m] = <<ctx[m], CachedDigest(m, readable)>>]
        /\ IF ~readable \/ (ctx[m] = cache[m] /\ ~options.NoCache)
           THEN /\ job' = [job EXCEPT ![m] = "finished"]
                /\ jobRes' = [jobRes EXCEPT ![m] =
                        IF readable THEN Nil ELSE <<"module is not cached">>]
           ELSE /\ job' = [job EXCEPT ![m] = "backend"]
                /\ UNCHANGED jobRes
    /\ UNCHANGED <<cache, backendCalls, hooksRun>>
    /\ UNCHANGED <<schedVars, runVars, histVars>>

\* Module.doBuild from loadBuildContext to the digest comparison.
loadContext(m) ==
    /\ ~Crashed
    /\ job[m] = "context"
    /\ \E loaded \in {TRUE} \cup {FALSE : x \in faults \cap {"load"}},
          readable \in {TRUE} \cup {FALSE : x \in faults \cap {"read"}} :
        IF ~loaded
        THEN /\ job' = [job EXCEPT ![m] = "finished"]
             /\ jobRes' = [jobRes EXCEPT ![m] = <<"load build context failed">>]
             /\ UNCHANGED compared
        ELSE /\ compared' = [compared EXCEPT ![m] = <<ctx[m], CachedDigest(m, readable)>>]
             /\ IF ctx[m] = CachedDigest(m, readable) /\ ~options.NoCache
                THEN /\ job' = [job EXCEPT ![m] = "finished"]
                     /\ jobRes' = [jobRes EXCEPT ![m] = Nil]
                ELSE /\ job' = [job EXCEPT ![m] = "backend"]
                     /\ UNCHANGED jobRes
    /\ UNCHANGED <<cache, backendCalls, hooksRun>>
    /\ UNCHANGED <<schedVars, runVars, histVars>>

\* doBuild(m, tar, relativeDockerfile, options): the backend a Builder value
\* selects, or "" when the value is unknown.
Backend(b) ==
    IF b \in {"", "docker"} THEN "docker"
    ELSE IF b = "kaniko" THEN "kaniko"
    ELSE ""

\* What the backend call and Module.cacheDigest can come to: the error
\* doBuild returns at that point (Nil: it goes on to the post-build hooks)
\* and the digest record left on disk.  The backend fails with one of its
\* messages; or it succeeds and the record is written; or it succeeds and
\* ioutil.WriteFile fails, before or after truncating the record.  With the
\* local daemon unreachable the docker backend can only fail.
BuildOutcomes(m) ==
    IF Backend(options.Builder) = "docker" /\ DaemonDown \in faults
    THEN {[res |-> <<"docker", ": ", "Cannot connect to the Docker daemon">>,
           record |-> cache[m]]}
    ELSE
    {[res |-> Nil, record |-> ctx[m]]}
    \cup {[res |-> <<Backend(options.Builder), ": ">> \o msg, record |-> cache[m]] :
            msg \in IF "backend" \in faults THEN BackendMessages ELSE {}}
    \cup {[res |-> <<"write digest failed">>, record |-> left] :
            left \in IF "write" \in faults THEN {cache[m], "torn"} ELSE {}}

\* Module.doBuild from Archive to cacheDigest: the backend call and, when
\* it succeeds, the write of the digest record.
build(m) ==
    /\ ~Crashed
    /\ job[m] = "backend"
    /\ IF Backend(options.Builder) = ""
       THEN /\ job' = [job EXCEPT ![m] = "finished"]
            /\ jobRes' = [jobRes EXCEPT ![m] =
                    <<"unknown builder '", options.Builder, "'">>]
            /\ UNCHANGED <<backendCalls, cache>>
       ELSE /\ backendCalls' = [backendCalls EXCEPT ![m] = @ + 1]
            /\ \E o \in BuildOutcomes(m) :
                /\ job' = [job EXCEPT ![m] = IF o.res = Nil THEN "after" ELSE "finished"]
                /\ jobRes' = [jobRes EXCEPT ![m] = o.res]
                /\ cache' = [cache EXCEPT ![m] = o.record]
    /\ UNCHANGED <<hooksRun, compared>>
    /\ UNCHANGED <<schedVars, runVars, histVars>>

\* The post-build hooks run without the test of options.SkipHooks.
runAfterWithoutSkipHooks(m) ==
    /\ ~Crashed
    /\ job[m] = "after"
    /\ job' = [job EXCEPT ![m] = "finished"]
    /\ \E f \in HookOutcomes(After) :
            /\ hooksRun' = [hooksRun EXCEPT ![m] = @ \o Executed(After, f)]
            /\ jobRes' = [jobRes EXCEPT ![m] =
                    IF f = 0 THEN Nil
                    ELSE <<"post-build hook failure: ", "exit status 1">>]
    /\ UNCHANGED <<cache, backendCalls, compared>>
    /\ UNCHANGED <<schedVars, runVars, histVars>>

\* Module.doBuild, the post-build hooks and the final return.
runAfter(m) ==
    /\ ~Crashed
    /\ job[m] = "after"
    /\ job' = [job EXCEPT ![m] = "finished"]
    /\ IF options.SkipHooks
       THEN /\ jobRes' = [jobRes EXCEPT ![m] = Nil]
            /\ UNCHANGED hooksRun
       ELSE \E f \in HookOutcomes(After) :
            /\ hooksRun' = [hooksRun EXCEPT ![m] = @ \o Executed(After, f)]
            /\ jobRes' = [jobRes EXCEPT ![m] =
                    IF f = 0 THEN Nil
                    ELSE <<"post-build hook failure: ", "exit status 1">>]
    /\ UNCHANGED <<cache, backendCalls, compared>>
    /\ UNCHANGED <<schedVars, runVars, histVars>>

\* Module.Build: pool.Process returns the job's result, which is the value
\* Build returns and the deferred broadcast delivers.
ProcessReturn(t) ==
    LET m == Target(t) IN
    /\ ~Crashed
    /\ pc[t] = "process"
    /\ job[m] = "finished"
    /\ job' = [job EXCEPT ![m] = "none"]
    /\ ret' = [ret EXCEPT ![t] = jobRes[m]]
    /\ ownerRet' = [ownerRet EXCEPT ![m] = <<jobRes[m]>>]
    /\ pc' = [pc EXCEPT ![t] = "broadcast"]
    /\ UNCHANGED <<status, err, subscribers, subscribersL, idx, multi,
                   chanBuf, chanClosed, chanSends, doneBuf, claims, owner>>
    /\ UNCHANGED <<jobRes, cache, backendCalls, hooksRun, compared>>
    /\ UNCHANGED runVars

(***************************************************************************)
(* Module.broadcast, run by the owner's deferred function                  *)
(***************************************************************************)
\* broadcast up to m.setStatus(...): the mutex is taken and the terminal
\* status is stored.
setStatus(t) ==
    LET m == Target(t) IN
    /\ ~Crashed
    /\ pc[t] = "broadcast"
    /\ subscribersL[m] = NoThread
    /\ subscribersL' = [subscribersL EXCEPT ![m] = t]
    /\ status' = [status EXCEPT ![m] =
            IF ret[t] # Nil THEN BuildStatusFailed ELSE BuildStatusSucceeded]
    /\ pc' = [pc EXCEPT ![t] = IF ret[t] # Nil THEN "storeerr" ELSE "deliver"]
    /\ UNCHANGED <<err, subscribers, ret, idx, multi,
                   chanBuf, chanClosed, chanSends, doneBuf>>
    /\ UNCHANGED <<jobVars, runVars, histVars>>

\* broadcast, failure branch: atomic.StorePointer(&m.err, &msg), after the
\* status store.
storeErr(t) ==
    LET m == Target(t) IN
    /\ ~Crashed
    /\ pc[t] = "storeerr"
    /\ err' = [err EXCEPT ![m] = ret[t]]
    /\ pc' = [pc EXCEPT ![t] = "deliver"]
    /\ UNCHANGED <<status, subscribers, subscribersL, ret, idx, multi,
                   chanBuf, chanClosed, chanSends, doneBuf>>
    /\ UNCHANGED <<jobVars, runVars, histVars>>

\* The threads whose channels are registered with m.
Subscribed(m) == {subscribers[m][i] : i \in 1..Len(subscribers[m])}

\* How often thread u's channel occurs in m.subscribers.
Occurrences(m, u) == Cardinality({i \in 1..Len(subscribers[m]) : subscribers[m][i] = u})

RECURSIVE Repeat(_, _)
Repeat(v, n) == IF n = 0 THEN <<>> ELSE <<v>> \o Repeat(v, n - 1)

\* broadcast, the loop over m.subscribers (subscriber <- err;
\* close(subscriber)), the deferred Unlock, and the return of Build.
broadcast(t) ==
    LET m == Target(t) IN
    /\ ~Crashed
    /\ pc[t] = "deliver"
    /\ chanBuf' = [u \in Threads |->
            chanBuf[u] \o Repeat(ret[t], Occurrences(m, u))]
    /\ chanClosed' = [u \in Threads |-> chanClosed[u] \/ u \in Subscribed(m)]
    /\ chanSends' = [u \in Threads |-> chanSends[u] + Occurrences(m, u)]
    /\ subscribersL' = [subscribersL EXCEPT ![m] = NoThread]
    /\ pc' = [pc EXCEPT ![t] = "ret"]
    /\ UNCHANGED <<status, err, subscribers, ret, idx, multi, doneBuf>>
    /\ UNCHANGED <<jobVars, runVars, histVars>>

(***************************************************************************)
(* Engine runs                                                             *)
(***************************************************************************)
\* Every Build call of the process has returned (or was never made).
Quiescent == \A t \in LeafCallers : pc[t] = "ret"

\* The process exits and the engine is started again: a new registry with
\* every module Pending; the digest cache is what the last run left, one
\* module's context may have been edited, the options are chosen anew.
NewRun ==
    /\ run < MaxRuns
    /\ Quiescent \/ Crashed
    /\ run' = run + 1
    /\ \E m \in Modules, d \in Digests : ctx' = [ctx EXCEPT ![m] = d]
    /\ options' \in OptionSets
    /\ status' = [m \in Modules |-> BuildStatusPending]
    /\ err' = [m \in Modules |-> Nil]
    /\ subscribers' = [m \in Modules |-> <<>>]
    /\ subscribersL' = [m \in Modules |-> NoThread]
    /\ pc' = [t \in Threads |-> IF t \in Tops THEN "call" ELSE "idle"]
    /\ ret' = [t \in Threads |-> Nil]
    /\ idx' = [t \in Threads |-> 0]
    /\ multi' = [t \in Threads |-> <<>>]
    /\ chanBuf' = [t \in Threads |-> <<>>]
    /\ chanClosed' = [t \in Threads |-> FALSE]
    /\ doneBuf' = [t \in Edges |-> <<>>]
    /\ job' = [m \in Modules |-> "none"]
    /\ jobRes' = [m \in Modules |-> Nil]
    /\ claims' = [m \in Modules |-> 0]
    /\ ownerRet' = [m \in Modules |-> <<>>]
    /\ backendCalls' = [m \in Modules |-> 0]
    /\ hooksRun' = [m \in Modules |-> <<>>]
    /\ owner' = [m \in Modules |-> NoThread]
    /\ chanSends' = [t \in Threads |-> 0]
    /\ compared' = [m \in Modules |-> <<>>]
    /\ prev' = [m \in Modules |->
                [ok |-> status[m] = BuildStatusSucceeded, digest |-> ctx[m],
                 record |-> cache[m]]]
    /\ UNCHANGED <<cache, deps, hasBuild, faults, legacyVars, kanikoVars, manifest,
                   digestVars, contextVars, nestedVars, registryVars>>

\* A step of thread t in Module.Build.
BuildStep(t) ==
    \/ claim(t)
    \/ LoadStatus(t)
    \/ LoadErr(t)
    \/ subscribe(t)
    \/ WaitForCompletion(t)
    \/ buildDependencies(t)
    \/ FinishDependency(t)
    \/ collectErrors(t)
    \/ AfterDependencies(t)
    \/ Process(t)
    \/ ProcessReturn(t)
    \/ setStatus(t)
    \/ storeErr(t)
    \/ broadcast(t)

\* A step of the pool worker that runs the job of module m.
WorkerStep(m) ==
    \/ runBefore(m)
    \/ loadContext(m)
    \/ build(m)
    \/ runAfter(m)

Next ==
    \/ \E t \in RootCallers \cup Edges : BuildStep(t)
    \/ \E m \in Modules : WorkerStep(m)

Spec == Init /\ [][Next]_vars

\* One engine run on the graph with the shared dependency, every module
\* with a build block, the local backend.
InitFair ==
    /\ Init
    /\ deps = Shared
    /\ hasBuild = TRUE
    /\ options.Builder = "docker"

\* The Go scheduler lets every goroutine that can take a step take one
\* eventually, and a pool worker goes on with the job it runs.
SpecFair ==
    /\ InitFair
    /\ [][Next]_vars
    /\ \A t \in RootCallers \cup Edges : WF_vars(BuildStep(t))
    /\ \A m \in Modules : WF_vars(WorkerStep(m))

\* The steps of a top-level Build of the leaf module (it has no
\* dependencies and no other caller).
LeafStep(t) ==
    \/ claim(t)
    \/ buildDependencies(t)
    \/ AfterDependencies(t)
    \/ Process(t)
    \/ ProcessReturn(t)
    \/ setStatus(t)
    \/ storeErr(t)
    \/ broadcast(t)

NextRuns ==
    \/ \E t \in LeafCallers : LeafStep(t)
    \/ WorkerStep(Leaf)
    \/ NewRun

SpecRuns == InitRuns /\ [][NextRuns]_vars

(***************************************************************************)
(* The pool-recursive driver: Build, BuildEx and buildDependencies with    *)
(* the pool whose worker function is BuildEx itself.  Every dependency     *)
(* reference is one BuildEx call, identified by the thread that asked for  *)
(* it: the top-level caller or the goroutine of a dependency edge.         *)
(***************************************************************************)
LegacyTop == <<"top", Root, 1>>
Invocations == {LegacyTop} \cup {t \in Edges : t[3] <= Len(Dependencies(t[2]))}

\* Whether the BuildEx call of invocation i is executed by a pool worker:
\* every dependency is (pool.Process in buildDependencies), the root is
\* when the command-line front-end submits it (pool.Process(&buildArgs))
\* and is not when Build calls BuildEx itself.
InWorker(i) == i \in Edges \/ frontend = "cmd"

\* Pool workers executing BuildEx.
LegacyBusy ==
    Cardinality({i \in Invocations : InWorker(i) /\ lpc[i] \in {"load", "collect", "build"}})

\* Build / buildCmd.RunE: the pool is created with options.Concurrency
\* workers running BuildEx; the front-end submits the root or calls BuildEx.
InitLegacy ==
    /\ FreshProcess
    /\ NoContext
    /\ NoKaniko
    /\ manifest \in Projects
    /\ cache = [m \in Modules |-> NoDigest]
    /\ ctx = [m \in Modules |-> "d1"]
    /\ options \in {o \in OptionSets : ~o.NoCache /\ ~o.SkipHooks /\ o.Builder = "docker"}
    /\ deps \in Graphs \cup {Nested}
    /\ hasBuild = TRUE
    /\ faults \in {{}, {"backend"}}
    /\ run = 1
    /\ prev = NoPrev
    /\ frontend \in {"cmd", "Build"}
    /\ lpc = [t \in Threads |->
                IF t # LegacyTop THEN "idle"
                ELSE IF frontend = "cmd" THEN "queued" ELSE "load"]

\* A goroutine of the process has panicked.
LegacyCrashed == \E i \in Threads : lpc[i] = "panic"

\* pool.Process(opts): the job is handed to a free worker, which starts
\* BuildEx(opts, cli, pool, nil).
LegacyProcess(i) ==
    /\ i \in Invocations
    /\ ~LegacyCrashed
    /\ lpc[i] = "queued"
    /\ LegacyBusy < options.Concurrency
    /\ lpc' = [lpc EXCEPT ![i] = "load"]
    /\ UNCHANGED <<frontend, lres, lidx, lmulti, ldone>>
    /\ UNCHANGED <<schedVars, jobVars, histVars, envVars>>

\* BuildSpec.verifyDocker: os.Stat of the Dockerfile next to the manifest.
verifyDocker(m) ==
    IF manifest[m].dockerfile THEN Nil
    ELSE <<"missing Dockerfile at '", m, "/Dockerfile'">>

\* BuildSpec.Verify
Verify(m) ==
    IF manifest[m].docker
    THEN IF manifest[m].name = "" THEN <<"missing image name">> ELSE verifyDocker(m)
    ELSE IF manifest[m].name = "" THEN Nil
    ELSE <<"missing build spec">>

\* The declared positions, counted from 0, of the dependencies of m whose
\* directory holds no manifest.
MissingDependencies(m) ==
    {k \in 0..(Len(Dependencies(m)) - 1) : ~manifest[Dependencies(m)[k + 1]].exists}

\* KindestSpec.Validate: the build block is verified and every declared
\* dependency must have a manifest.
Validate(m) ==
    IF Verify(m) # Nil THEN Verify(m)
    ELSE IF MissingDependencies(m) # {}
    THEN LET k == CHOOSE k \in MissingDependencies(m) :
                    \A j \in MissingDependencies(m) : k <= j
         IN <<"dependency ", k, ": missing kindest.yaml">>
    ELSE Nil

\* loadSpec: ioutil.ReadFile of the manifest, yaml.Unmarshal, Validate.
loadSpec(m) ==
    IF ~manifest[m].exists
    THEN <<"open ", m, "/kindest.yaml: no such file or directory">>
    ELSE Validate(m)

\* BuildEx that reads the manifest without validating it.
BuildExWithoutValidate(i) ==
    LET m == Target(i) IN
    /\ i \in Invocations
    /\ ~LegacyCrashed
    /\ lpc[i] = "load"
    /\ IF ~manifest[m].exists
       THEN /\ lpc' = [lpc EXCEPT ![i] = "done"]
            /\ lres' = [lres EXCEPT ![i] = loadSpec(m)]
            /\ ldone' = IF i \in Edges THEN [ldone EXCEPT ![i] = <<loadSpec(m)>>] ELSE ldone
            /\ UNCHANGED <<lidx, lmulti>>
       ELSE /\ lpc' = [u \in Threads |->
                IF u = i THEN "collect"
                ELSE IF u \in Invocations /\ u[1] = "dep" /\ u[2] = m THEN "queued"
                ELSE lpc[u]]
            /\ lidx' = [lidx EXCEPT ![i] = 1]
            /\ lmulti' = [lmulti EXCEPT ![i] = <<>>]
            /\ UNCHANGED <<lres, ldone>>
    /\ UNCHANGED frontend
    /\ UNCHANGED <<schedVars, jobVars, histVars, envVars>>

\* BuildEx up to the start of the wait in buildDependencies: loadSpec, whose
\* error is returned, then one goroutine per dependency, each calling
\* pool.Process for it.
BuildEx(i) ==
    LET m == Target(i) IN
    /\ i \in Invocations
    /\ ~LegacyCrashed
    /\ lpc[i] = "load"
    /\ IF loadSpec(m) # Nil
       THEN /\ lpc' = [lpc EXCEPT ![i] = "done"]
            /\ lres' = [lres EXCEPT ![i] = loadSpec(m)]
            /\ ldone' = IF i \in Edges THEN [ldone EXCEPT ![i] = <<loadSpec(m)>>] ELSE ldone
            /\ UNCHANGED <<lidx, lmulti>>
       ELSE /\ lpc' = [u \in Threads |->
                IF u = i THEN "collect"
                ELSE IF u \in Invocations /\ u[1] = "dep" /\ u[2] = m THEN "queued"
                ELSE lpc[u]]
            /\ lidx' = [lidx EXCEPT ![i] = 1]
            /\ lmulti' = [lmulti EXCEPT ![i] = <<>>]
            /\ UNCHANGED <<lres, ldone>>
    /\ UNCHANGED frontend
    /\ UNCHANGED <<schedVars, jobVars, histVars, envVars>>

\* buildDependencies: one iteration of the loop over dones; a non-nil error
\* is appended as "dependency '<dir>': <err>".
LegacyCollect(i) ==
    LET m == Target(i)
        e == <<"dep", m, lidx[i]>>
    IN
    /\ i \in Invocations
    /\ ~LegacyCrashed
    /\ lpc[i] = "collect"
    /\ lidx[i] <= Len(Dependencies(m))
    /\ ldone[e] # <<>>
    /\ lmulti' = [lmulti EXCEPT ![i] =
            IF Head(ldone[e]) = Nil THEN @
            ELSE Append(@, <<"dependency '", Dependencies(m)[lidx[i]], "': ">>
                           \o Head(ldone[e]))]
    /\ ldone' = [ldone EXCEPT ![e] = Tail(@)]
    /\ lidx' = [lidx EXCEPT ![i] = @ + 1]
    /\ UNCHANGED <<frontend, lpc, lres>>
    /\ UNCHANGED <<schedVars, jobVars, histVars, envVars>>

\* The return of a BuildEx call with error e: a pool job's result goes
\* through pool.Process to the goroutine, which sends it on its done
\* channel; the worker is free again.
LegacyReturn(i, e) ==
    /\ lpc' = [lpc EXCEPT ![i] = "done"]
    /\ lres' = [lres EXCEPT ![i] = e]
    /\ ldone' = IF i \in Edges THEN [ldone EXCEPT ![i] = <<e>>] ELSE ldone

\* BuildEx after buildDependencies returned: return its error, or go on to
\* the image build.
LegacyAfterDependencies(i) ==
    LET m == Target(i) IN
    /\ i \in Invocations
    /\ ~LegacyCrashed
    /\ lpc[i] = "collect"
    /\ lidx[i] > Len(Dependencies(m))
    /\ IF MultiError(lmulti[i]) # Nil
       THEN LegacyReturn(i, MultiError(lmulti[i]))
       ELSE /\ lpc' = [lpc EXCEPT ![i] = "build"]
            /\ UNCHANGED <<lres, ldone>>
    /\ UNCHANGED <<frontend, lidx, lmulti>>
    /\ UNCHANGED <<schedVars, jobVars, histVars, envVars>>

\* BuildEx: spec.Build.Build, which reads b.Docker.Context (a nil pointer
\* dereference when the manifest has no docker block), then cli.ImageBuild
\* and the return of its result.
LegacyImageBuild(i) ==
    /\ i \in Invocations
    /\ ~LegacyCrashed
    /\ lpc[i] = "build"
    /\ IF ~manifest[Target(i)].docker
       THEN /\ lpc' = [lpc EXCEPT ![i] = "panic"]
            /\ UNCHANGED <<lres, ldone, backendCalls>>
       ELSE /\ backendCalls' = [backendCalls EXCEPT ![Target(i)] = @ + 1]
            /\ \E e \in {Nil} \cup (IF "backend" \in faults THEN BackendMessages ELSE {}) :
                LegacyReturn(i, e)
    /\ UNCHANGED <<frontend, lidx, lmulti>>
    /\ UNCHANGED <<job, jobRes, cache, hooksRun, compared>>
    /\ UNCHANGED <<schedVars, histVars, envVars>>

NextLegacy ==
    \E i \in {LegacyTop} \cup Edges :
        \/ LegacyProcess(i)
        \/ BuildEx(i)
        \/ LegacyCollect(i)
        \/ LegacyAfterDependencies(i)
        \/ LegacyImageBuild(i)

SpecLegacy == InitLegacy /\ [][NextLegacy]_vars

(***************************************************************************)
(* The cluster backend: buildKaniko                                        *)
(***************************************************************************)
\* Exit codes of the in-pod builder tried (0: success).
ExitCodes == {0, 1, 2, 137}

\* Lines of stderr, as token sequences: an empty line, a blank one, plain
\* messages (one with surrounding blanks) and one holding a format verb.
StderrLines ==
    {<<>>, <<" ">>, <<"cat: can't open 'foo'">>,
     <<" ", "error building image", " ">>, <<"copied 100", "%", "d", " done">>}

\* All sequences over S of length at most n.
SeqUpTo(S, n) == UNION {[1..k -> S] : k \in 0..n}

\* strings.TrimSpace
RECURSIVE TrimLeft(_)
TrimLeft(l) == IF l # <<>> /\ Head(l) = " " THEN TrimLeft(Tail(l)) ELSE l
RECURSIVE TrimRight(_)
TrimRight(l) ==
    IF l # <<>> /\ l[Len(l)] = " " THEN TrimRight(SubSeq(l, 1, Len(l) - 1)) ELSE l
TrimSpace(l) == TrimRight(TrimLeft(l))

\* The error execInPod returns when the command exits with code n.
ExitError(n) == <<"command terminated with exit code ", n>>

\* The first decimal digit of n.
RECURSIVE LeadingDigit(_)
LeadingDigit(n) == IF n < 10 THEN n ELSE LeadingDigit(n \div 10)

\* strings.Contains(err.Error(), "command terminated with exit code 1")
ContainsExitCode1(e) ==
    /\ Len(e) = 2
    /\ e[1] = "command terminated with exit code "
    /\ LeadingDigit(e[2]) = 1

\* The loop of buildKaniko over strings.Split(stderr, "\n") from the last
\* line to the first: the first line that is not empty once trimmed, or
\* <<>> when there is none.
RECURSIVE LastLine(_)
LastLine(lines) ==
    IF lines = <<>> THEN <<>>
    ELSE IF TrimSpace(lines[Len(lines)]) # <<>> THEN TrimSpace(lines[Len(lines)])
    ELSE LastLine(SubSeq(lines, 1, Len(lines) - 1))

\* len(stderr) > 0: the lines joined by "\n" have at least one byte.
StderrNotEmpty(lines) == Len(lines) > 1 \/ (Len(lines) = 1 /\ lines[1] # <<>>)

\* The rest of the state is not touched by buildKaniko.
KanikoFrame ==
    UNCHANGED <<schedVars, jobVars, histVars, legacyVars,
                deps, ctx, options, hasBuild, run, faults, prev, manifest,
                digestVars, contextVars, nestedVars, registryVars>>

\* A call of buildKaniko; the in-pod builder will exit with one of the
\* codes and write one of the stderr contents.
InitKaniko ==
    /\ FreshProcess
    /\ NoContext
    /\ manifest = ValidManifests
    /\ cache = [m \in Modules |-> NoDigest]
    /\ ctx = [m \in Modules |-> "d1"]
    /\ options \in {o \in OptionSets :
                      ~o.NoCache /\ ~o.SkipHooks /\ o.Builder = "kaniko" /\ o.Concurrency = 1}
    /\ deps = Fan
    /\ hasBuild = TRUE
    /\ faults = {}
    /\ run = 1
    /\ prev = NoPrev
    /\ frontend = "Build"
    /\ lpc = [t \in Threads |-> "idle"]
    /\ kpc = "config"
    /\ kcode \in ExitCodes
    /\ kstderr \in SeqUpTo(StderrLines, MaxLines)
    /\ kexec = "none"
    /\ kpods = 0
    /\ kdeletes = <<>>
    /\ kerr = Nil
    /\ dpc = [e \in Engines |-> "done"]
    /\ dnew = [e \in Engines |-> "d1"]
    /\ dseen = [e \in Engines |-> <<>>]

\* buildKaniko returning e: before the pod exists the call is over, after
\* it the deferred function runs first.
KanikoReturn(e) ==
    /\ kerr' = e
    /\ kpc' = IF kpods > 0 THEN "delete" ELSE "done"

\* clientcmd.BuildConfigFromFlags and kubernetes.NewForConfig
KanikoConfig ==
    /\ kpc = "config"
    /\ \E ok \in BOOLEAN :
        IF ok THEN kpc' = "create" /\ UNCHANGED kerr
        ELSE KanikoReturn(<<"invalid configuration">>)
    /\ UNCHANGED <<kcode, kstderr, kexec, kpods, kdeletes>>
    /\ KanikoFrame

\* pods.Create; on success the deferred pods.Delete is registered.
KanikoCreate ==
    /\ kpc = "create"
    /\ \E ok \in BOOLEAN :
        IF ok THEN /\ kpods' = kpods + 1
                   /\ kpc' = "wait"
                   /\ UNCHANGED kerr
        ELSE /\ KanikoReturn(<<"failed to create kaniko pod: ", "forbidden">>)
             /\ UNCHANGED kpods
    /\ UNCHANGED <<kcode, kstderr, kexec, kdeletes>>
    /\ KanikoFrame

\* buildKaniko with the deferred pods.Delete registered only after
\* waitForPod: a wait that fails returns at once.
waitForPodBeforeDefer ==
    /\ kpc = "wait"
    /\ \E ok \in BOOLEAN :
        IF ok THEN kpc' = "gzip" /\ UNCHANGED kerr
        ELSE kerr' = <<"timed out waiting for pod">> /\ kpc' = "done"
    /\ UNCHANGED <<kcode, kstderr, kexec, kpods, kdeletes>>
    /\ KanikoFrame

\* waitForPod(pod.Name, pod.Namespace, clientset, log)
waitForPod ==
    /\ kpc = "wait"
    /\ \E ok \in BOOLEAN :
        IF ok THEN kpc' = "gzip" /\ UNCHANGED kerr
        ELSE KanikoReturn(<<"timed out waiting for pod">>)
    /\ UNCHANGED <<kcode, kstderr, kexec, kpods, kdeletes>>
    /\ KanikoFrame

\* gzip the build context: zw.Write and zw.Close
KanikoGzip ==
    /\ kpc = "gzip"
    /\ \E e \in {Nil, <<"wrong num bytes">>, <<"gzip: write failed">>} :
        IF e = Nil THEN kpc' = "cred" /\ UNCHANGED kerr
        ELSE KanikoReturn(e)
    /\ UNCHANGED <<kcode, kstderr, kexec, kpods, kdeletes>>
    /\ KanikoFrame

\* copyDockerCredential(clientset, config, pod)
copyDockerCredential ==
    /\ kpc = "cred"
    /\ \E ok \in BOOLEAN :
        IF ok THEN kpc' = "exec" /\ UNCHANGED kerr
        ELSE KanikoReturn(<<"copy credentials failed">>)
    /\ UNCHANGED <<kcode, kstderr, kexec, kpods, kdeletes>>
    /\ KanikoFrame

\* execInPod of the builder command: the stream cannot be set up, or the
\* command runs and exits with kcode.
execInPod ==
    /\ kpc = "exec"
    /\ \E connected \in BOOLEAN :
        /\ kexec' = IF ~connected THEN "transport"
                    ELSE IF kcode = 0 THEN "ok" ELSE "exit"
        /\ kerr' = IF ~connected THEN <<"error dialing backend">>
                   ELSE IF kcode = 0 THEN Nil ELSE ExitError(kcode)
    /\ kpc' = "result"
    /\ UNCHANGED <<kcode, kstderr, kpods, kdeletes>>
    /\ KanikoFrame

\* The lines of stderr that reached the buffer: none when the stream was
\* never set up.
Stderr == IF kexec = "transport" THEN <<>> ELSE kstderr

\* buildKaniko after execInPod: the error returned.
KanikoResult ==
    /\ kpc = "result"
    /\ KanikoReturn(
         IF kerr = Nil THEN Nil
         ELSE IF /\ ContainsExitCode1(kerr)
                 /\ StderrNotEmpty(Stderr)
                 /\ LastLine(Stderr) # <<>>
         THEN Errorf(LastLine(Stderr))
         ELSE kerr)
    /\ UNCHANGED <<kcode, kstderr, kexec, kpods, kdeletes>>
    /\ KanikoFrame

\* The deferred function: pods.Delete; a failure is logged.
KanikoDelete ==
    /\ kpc = "delete"
    /\ \E ok \in BOOLEAN :
        /\ kdeletes' = Append(kdeletes, ok)
        /\ kpods' = IF ok THEN kpods - 1 ELSE kpods
    /\ kpc' = "done"
    /\ UNCHANGED <<kcode, kstderr, kexec, kerr>>
    /\ KanikoFrame

NextKaniko ==
    \/ KanikoConfig
    \/ KanikoCreate
    \/ waitForPod
    \/ KanikoGzip
    \/ copyDockerCredential
    \/ execInPod
    \/ KanikoResult
    \/ KanikoDelete

SpecKaniko == InitKaniko /\ [][NextKaniko]_vars

(***************************************************************************)
(* The digest record under concurrent engine invocations: Module.doBuild   *)
(* from CachedDigest to cacheDigest, run by two processes on the same      *)
(* module directory, with ioutil.WriteFile as the system calls it makes    *)
(***************************************************************************)
\* ErrModuleNotCached
ErrModuleNotCached == <<"module is not cached">>

\* The digest file exists and is empty: what os.OpenFile with O_TRUNC leaves
\* until the write.
Truncated == "truncated"

\* ioutil.ReadFile of the digest file as CachedDigest returns it.
ReadRecord(file) ==
    IF file = NoDigest THEN <<"", ErrModuleNotCached>>
    ELSE IF file = Truncated THEN <<"", Nil>>
    ELSE <<file, Nil>>

DigestFrame ==
    UNCHANGED <<schedVars, histVars, legacyVars, kanikoVars,
                job, jobRes, backendCalls, hooksRun, compared,
                deps, ctx, options, hasBuild, run, faults, prev, manifest,
                contextVars, nestedVars, registryVars>>

\* Two engine invocations are about to read the record of the same module
\* directory; the record holds nothing or a digest, each invocation has
\* computed the digest of the context it sees, writes may fail.
InitDigest ==
    /\ FreshProcess
    /\ NoContext
    /\ manifest = ValidManifests
    /\ cache \in {[m \in Modules |-> IF m = Leaf THEN d ELSE NoDigest] :
                    d \in {NoDigest} \cup Digests}
    /\ ctx = [m \in Modules |-> "d1"]
    /\ options \in {o \in OptionSets :
                      ~o.SkipHooks /\ o.Builder = "docker" /\ o.Concurrency = 1}
    /\ deps = Shared
    /\ hasBuild = TRUE
    /\ faults \in {{}, {"write"}}
    /\ run = 1
    /\ prev = NoPrev
    /\ frontend = "Build"
    /\ lpc = [t \in Threads |-> "idle"]
    /\ kpc = "idle"
    /\ kcode = 0
    /\ kstderr = <<>>
    /\ kexec = "none"
    /\ kpods = 0
    /\ kdeletes = <<>>
    /\ kerr = Nil
    /\ dpc = [e \in Engines |-> "read"]
    /\ dnew \in [Engines -> Digests]
    /\ dseen = [e \in Engines |-> <<>>]

\* Module.doBuild: m.CachedDigest() and the comparison with the digest of
\* the context; on a hit the build is over, otherwise the image is built
\* and cacheDigest is called.
CachedDigestCall(e) ==
    /\ dpc[e] = "read"
    /\ dseen' = [dseen EXCEPT ![e] = ReadRecord(cache[Leaf])]
    /\ dpc' = [dpc EXCEPT ![e] =
            IF ReadRecord(cache[Leaf])[1] = dnew[e] /\ ~options.NoCache
            THEN "done" ELSE "open"]
    /\ UNCHANGED <<dnew, cache>>
    /\ DigestFrame

\* cacheDigest, ioutil.WriteFile: os.OpenFile(path, O_WRONLY|O_CREATE|O_TRUNC)
\* creates the file or cuts it to length zero.
cacheDigestOpen(e) ==
    /\ dpc[e] = "open"
    /\ cache' = [cache EXCEPT ![Leaf] = Truncated]
    /\ dpc' = [dpc EXCEPT ![e] = "write"]
    /\ UNCHANGED <<dnew, dseen>>
    /\ DigestFrame

\* cacheDigest, ioutil.WriteFile: f.Write(data) and f.Close(); a failing
\* write leaves a part of the digest.
cacheDigestWrite(e) ==
    /\ dpc[e] = "write"
    /\ \E left \in {dnew[e]} \cup {"torn" : x \in faults \cap {"write"}} :
            cache' = [cache EXCEPT ![Leaf] = left]
    /\ dpc' = [dpc EXCEPT ![e] = "done"]
    /\ UNCHANGED <<dnew, dseen>>
    /\ DigestFrame

NextDigest ==
    \/ \E e \in Engines : CachedDigestCall(e)
    \/ \E e \in Engines : cacheDigestOpen(e)
    \/ \E e \in Engines : cacheDigestWrite(e)

SpecDigest == InitDigest /\ [][NextDigest]_vars

(***************************************************************************)
(* The build context: Module.loadBuildContext (createDockerInclude,        *)
(* addDirToBuildContext, addFileToBuildContext) and the digest doBuild     *)
(* compares, on a context directory that is edited between two builds.     *)
(* Paths are sequences of names.                                           *)
(***************************************************************************)
\* The files of the context directory, and a Dockerfile next to it.
FilePaths ==
    {<<"Dockerfile">>, <<"main.go">>, <<"notes.txt">>, <<"src", "a.go">>,
     <<"src", "b.go">>, <<"build", "Dockerfile">>}
OutsidePaths == {<<"..", "Dockerfile">>}

\* The path and its parent directories.
Prefixes(path) == {SubSeq(path, 1, n) : n \in 1..Len(path)}

DirPaths == {q \in UNION {Prefixes(f) : f \in FilePaths} : q \notin FilePaths}
Entries == FilePaths \cup DirPaths

\* os.FileInfo.IsDir
IsDir(e) == e \in DirPaths

\* ioutil.ReadDir(dir)
ReadDir(dir) ==
    {e \in Entries : Len(e) = Len(dir) + 1 /\ SubSeq(e, 1, Len(dir)) = dir}

\* IgnoreMatcher.Match(rel, isDir) for patterns that are plain relative
\* paths: a pattern of n components is compared with the last n components
\* of the path.
Match(patterns, rel) ==
    \E pat \in patterns :
        /\ Len(pat) <= Len(rel)
        /\ SubSeq(rel, Len(rel) - Len(pat) + 1, Len(rel)) = pat

\* The .dockerignore files tried.
IgnoreFiles ==
    {{}, {<<"notes.txt">>}, {<<"Dockerfile">>}, {<<"src">>},
     {<<"build">>, <<"notes.txt">>}, {<<"src", "b.go">>, <<"Dockerfile">>}}

\* A line of the Dockerfile: the instruction, whether its first argument is
\* a --from flag, and its source paths.
Line(op, from, sources) == [op |-> op, from |-> from, sources |-> sources]

\* The Dockerfiles tried.
Recipes ==
    {<<Line("RUN", FALSE, <<>>)>>,
     <<Line("COPY", FALSE, <<<<"main.go">>>>)>>,
     <<Line("COPY", FALSE, <<<<"src">>>>)>>,
     <<Line("RUN", FALSE, <<>>), Line("ADD", FALSE, <<<<"src", "a.go">>>>)>>,
     <<Line("COPY", FALSE, <<<<"main.go">>, <<"notes.txt">>>>)>>,
     <<Line("COPY", TRUE, <<<<"main.go">>>>), Line("COPY", FALSE, <<<<"src", "a.go">>>>)>>,
     <<Line("COPY", FALSE, <<<<"gone.txt">>>>)>>}

\* filepath.Join: empty elements are dropped.
Join(parts) == SelectSeq(parts, LAMBDA x : x # "")

\* createDockerInclude, the loop over parts: every prefix of the source
\* path that is not in addedPaths yet is appended.
RECURSIVE AddParts(_, _, _)
AddParts(added, parts, i) ==
    IF i > Len(parts) THEN added
    ELSE LET full == Join(SubSeq(parts, 1, i)) IN
         AddParts(IF \E k \in 1..Len(added) : added[k] = full
                  THEN added ELSE Append(added, full),
                  parts, i + 1)

\* createDockerInclude, strings.Split(rel, "/") after "/" was appended to
\* the name of a directory.
Parts(rel) == IF IsDir(rel) THEN rel \o <<"">> ELSE rel

\* createDockerInclude with every entry of the context directory added.
createDockerIncludeWholeContext(lines, added) ==
    LET RECURSIVE All(_)
        All(S) == IF S = {} THEN <<>>
                  ELSE LET e == CHOOSE x \in S : TRUE IN <<e>> \o All(S \ {e})
    IN <<All(Entries)>>

\* createDockerInclude: the scan of the Dockerfile's lines; the first
\* argument of every COPY or ADD that is not a --from flag is stat'ed and
\* added with its prefixes.  The result is <<addedPaths>>, or <<>> when a
\* stat fails.
RECURSIVE createDockerInclude(_, _)
createDockerInclude(lines, added) ==
    IF lines = <<>> THEN <<added>>
    ELSE LET line == Head(lines) IN
         IF line.op \in {"COPY", "ADD"} /\ ~line.from
         THEN IF line.sources[1] \notin Entries THEN <<>>
              ELSE createDockerInclude(Tail(lines),
                        AddParts(added, Parts(line.sources[1]), 1))
         ELSE createDockerInclude(Tail(lines), added)

\* addDirToBuildContext recursing into directories the .dockerignore
\* excludes.
RECURSIVE addDirToBuildContextKeepingDirs(_)
addDirToBuildContextKeepingDirs(dir) ==
    UNION {IF IsDir(e) THEN {e} \cup addDirToBuildContextKeepingDirs(e)
           ELSE IF Match(ignore, e) THEN {} ELSE {e} : e \in ReadDir(dir)}

\* addDirToBuildContext: the entries added under dir; an entry the
\* .dockerignore matches is skipped, a directory with all it holds.
RECURSIVE addDirToBuildContext(_)
addDirToBuildContext(dir) ==
    UNION {IF Match(ignore, e) THEN {}
           ELSE IF IsDir(e) THEN {e} \cup addDirToBuildContext(e)
           ELSE {e} : e \in ReadDir(dir)}

\* addFileToBuildContext: the entries of c and, where c lacks them, the
\* directories on the way to relativePath and the file itself.
addFileToBuildContext(relativePath, c) == c \cup Prefixes(relativePath)

\* Module.loadBuildContext: the include list, the walk of the context
\* directory and the insertion of the Dockerfile.
loadBuildContext ==
    /\ bpc = "load"
    /\ IF createDockerInclude(recipe, <<>>) = <<>>
       THEN /\ bpc' = "failed"
            /\ UNCHANGED <<binclude, bctx>>
       ELSE /\ bpc' = "digest"
            /\ binclude' = createDockerInclude(recipe, <<>>)[1]
            /\ bctx' = [e \in addFileToBuildContext(dockerfile, addDirToBuildContext(<<>>)) |->
                            IF e \in DOMAIN disk THEN disk[e] ELSE "dir"]
    /\ UNCHANGED <<disk, ignore, recipe, dockerfile, bdigest, bprev, bedit>>
    /\ UNCHANGED <<schedVars, jobVars, histVars, legacyVars,
                   deps, ctx, options, hasBuild, run, faults, prev, manifest,
                   kanikoVars, digestVars, nestedVars, registryVars>>

\* BuildContext.Digest(include): the entries of the context that are in
\* the include list, with the content of the files, are what is hashed.
Digest(c, include) ==
    {<<e, c[e]>> : e \in {x \in DOMAIN c : \E k \in 1..Len(include) : include[k] = x}}

\* Module.doBuild: buildContext.Digest(include).
DigestStep ==
    /\ bpc = "digest"
    /\ bdigest' = Digest(bctx, binclude)
    /\ bpc' = "done"
    /\ UNCHANGED <<disk, ignore, recipe, dockerfile, binclude, bctx, bprev, bedit>>
    /\ UNCHANGED <<schedVars, jobVars, histVars, legacyVars,
                   deps, ctx, options, hasBuild, run, faults, prev, manifest,
                   kanikoVars, digestVars, nestedVars, registryVars>>

\* Between two builds the content of one file is changed; the module is
\* then built again.
EditFile ==
    /\ bpc = "done"
    /\ bedit = <<>>
    /\ \E f \in DOMAIN disk :
        /\ disk' = [disk EXCEPT ![f] = 2]
        /\ bedit' = f
    /\ bprev' = bdigest
    /\ bpc' = "load"
    /\ UNCHANGED <<ignore, recipe, dockerfile, binclude, bctx, bdigest>>
    /\ UNCHANGED <<schedVars, jobVars, histVars, legacyVars,
                   deps, ctx, options, hasBuild, run, faults, prev, manifest,
                   kanikoVars, digestVars, nestedVars, registryVars>>

\* A module directory with one of the Dockerfiles, at one of three places,
\* and one of the .dockerignore files, about to be built for the first time.
InitContext ==
    /\ FreshProcess
    /\ NoKaniko
    /\ manifest = ValidManifests
    /\ cache = [m \in Modules |-> NoDigest]
    /\ ctx = [m \in Modules |-> "d1"]
    /\ options \in {o \in OptionSets :
                      ~o.NoCache /\ ~o.SkipHooks /\ o.Builder = "docker" /\ o.Concurrency = 1}
    /\ deps = Shared
    /\ hasBuild = TRUE
    /\ faults = {}
    /\ run = 1
    /\ prev = NoPrev
    /\ frontend = "Build"
    /\ lpc = [t \in Threads |-> "idle"]
    /\ disk = [f \in FilePaths \cup OutsidePaths |-> 1]
    /\ ignore \in IgnoreFiles
    /\ recipe \in Recipes
    /\ dockerfile \in {<<"Dockerfile">>, <<"build", "Dockerfile">>} \cup OutsidePaths
    /\ bpc = "load"
    /\ binclude = <<>>
    /\ bctx = <<>>
    /\ bdigest = {}
    /\ bprev = {}
    /\ bedit = <<>>
    /\ NoNested
    /\ NoRegistry

NextContext ==
    \/ loadBuildContext
    \/ DigestStep
    \/ EditFile

SpecContext == InitContext /\ [][NextContext]_vars

(***************************************************************************)
(* The pool-recursive driver on manifests that declare a dependency cycle. *)
(* A BuildEx call is identified by its place in the tree of calls: the     *)
(* positions of the dependencies taken from the root.                      *)
(***************************************************************************)
\* R -> [R]
SelfCycle == [m \in Modules |-> IF m = "R" THEN <<"R">> ELSE <<>>]
\* R -> [A], A -> [R]
TwoCycle ==
    [m \in Modules |-> IF m = "R" THEN <<"A">> ELSE IF m = "A" THEN <<"R">> ELSE <<>>]
\* R -> [A, C], A -> [R]: C is outside the cycle.
SideCycle ==
    [m \in Modules |->
        IF m = "R" THEN <<"A", "C">> ELSE IF m = "A" THEN <<"R">> ELSE <<>>]
\* R -> [C, A], A -> [B], B -> [A]: the root is outside the cycle.
InnerCycle ==
    [m \in Modules |->
        IF m = "R" THEN <<"C", "A">> ELSE IF m = "A" THEN <<"B">>
        ELSE IF m = "B" THEN <<"A">> ELSE <<>>]
CyclicGraphs == {SelfCycle, TwoCycle, SideCycle, InnerCycle}

\* A call nested below as many calls as the pool has workers can only be
\* queued, so deeper calls are never made.
MaxDepth == MaxConcurrency + 1

RECURSIVE PathsUpTo(_)
PathsUpTo(n) ==
    IF n = 0 THEN {<<>>}
    ELSE PathsUpTo(n - 1)
         \cup {Append(c, k) : c \in {x \in PathsUpTo(n - 1) : Len(x) = n - 1}, k \in 1..2}
CallPaths == PathsUpTo(MaxDepth)

\* The module whose manifest the call is given ("": there is no such call).
RECURSIVE ModuleAt(_)
ModuleAt(c) ==
    IF c = <<>> THEN Root
    ELSE LET parent == ModuleAt(SubSeq(c, 1, Len(c) - 1)) IN
         IF parent = "" \/ c[Len(c)] > Len(Dependencies(parent)) THEN ""
         ELSE Dependencies(parent)[c[Len(c)]]

\* The calls buildDependencies of call c makes, in declared order.
ChildCalls(c) ==
    IF Len(c) = MaxDepth THEN <<>>
    ELSE [k \in 1..Len(Dependencies(ModuleAt(c))) |-> Append(c, k)]

\* Whether call c is executed by a pool worker.
NestedInWorker(c) == c # <<>> \/ frontend = "cmd"

\* Pool workers executing BuildEx.
NestedBusy ==
    Cardinality({c \in DOMAIN cpc :
                    NestedInWorker(c) /\ cpc[c] \in {"load", "collect", "build"}})

NestedFrame ==
    UNCHANGED <<schedVars, histVars, legacyVars, kanikoVars, digestVars, contextVars,
                registryVars, job, jobRes, cache, hooksRun, compared,
                deps, ctx, options, hasBuild, run, faults, prev, manifest>>

\* Build / buildCmd.RunE on a project whose manifests are valid and
\* declare a cycle.
InitNested ==
    /\ FreshProcess
    /\ NoKaniko
    /\ manifest = ValidManifests
    /\ cache = [m \in Modules |-> NoDigest]
    /\ ctx = [m \in Modules |-> "d1"]
    /\ options \in {o \in OptionSets : ~o.NoCache /\ ~o.SkipHooks /\ o.Builder = "docker"}
    /\ deps \in CyclicGraphs
    /\ hasBuild = TRUE
    /\ faults \in {{}, {"backend"}}
    /\ run = 1
    /\ prev = NoPrev
    /\ frontend \in {"cmd", "Build"}
    /\ lpc = [t \in Threads |-> "idle"]
    /\ IdleContext
    /\ NoRegistry
    /\ cpc = [c \in {x \in CallPaths : ModuleAt(x) # ""} |->
                IF c # <<>> THEN "idle"
                ELSE IF frontend = "cmd" THEN "queued" ELSE "load"]
    /\ cres = [c \in {x \in CallPaths : ModuleAt(x) # ""} |-> Nil]

\* pool.Process(opts): a free worker starts BuildEx.
NestedProcess(c) ==
    /\ c \in DOMAIN cpc
    /\ cpc[c] = "queued"
    /\ NestedBusy < options.Concurrency
    /\ cpc' = [cpc EXCEPT ![c] = "load"]
    /\ UNCHANGED <<cres, backendCalls>>
    /\ NestedFrame

\* BuildEx up to the wait in buildDependencies: loadSpec, then one
\* goroutine per dependency calling pool.Process; nothing tells a manifest
\* that is being built further up from a new one.
NestedBuildEx(c) ==
    /\ c \in DOMAIN cpc
    /\ cpc[c] = "load"
    /\ IF loadSpec(ModuleAt(c)) # Nil
       THEN /\ cpc' = [cpc EXCEPT ![c] = "done"]
            /\ cres' = [cres EXCEPT ![c] = loadSpec(ModuleAt(c))]
       ELSE /\ cpc' = [x \in DOMAIN cpc |->
                IF x = c THEN "collect"
                ELSE IF \E k \in 1..Len(ChildCalls(c)) : ChildCalls(c)[k] = x
                THEN "queued"
                ELSE cpc[x]]
            /\ UNCHANGED cres
    /\ UNCHANGED backendCalls
    /\ NestedFrame

\* The entries buildDependencies of call c appends: one per dependency
\* that returned an error, in declared order.
RECURSIVE NestedErrors(_, _)
NestedErrors(c, k) ==
    IF k > Len(ChildCalls(c)) THEN <<>>
    ELSE (IF cres[ChildCalls(c)[k]] = Nil THEN <<>>
          ELSE <<<<"dependency '", ModuleAt(ChildCalls(c)[k]), "': ">>
                 \o cres[ChildCalls(c)[k]]>>)
         \o NestedErrors(c, k + 1)

\* buildDependencies: every done channel has been read; BuildEx returns
\* the aggregated error or goes on to the image build.
NestedCollect(c) ==
    /\ c \in DOMAIN cpc
    /\ cpc[c] = "collect"
    /\ \A k \in 1..Len(ChildCalls(c)) : cpc[ChildCalls(c)[k]] = "done"
    /\ IF MultiError(NestedErrors(c, 1)) # Nil
       THEN /\ cpc' = [cpc EXCEPT ![c] = "done"]
            /\ cres' = [cres EXCEPT ![c] = MultiError(NestedErrors(c, 1))]
       ELSE /\ cpc' = [cpc EXCEPT ![c] = "build"]
            /\ UNCHANGED cres
    /\ UNCHANGED backendCalls
    /\ NestedFrame

\* BuildEx: spec.Build.Build and the return of its result.
NestedImageBuild(c) ==
    /\ c \in DOMAIN cpc
    /\ cpc[c] = "build"
    /\ backendCalls' = [backendCalls EXCEPT ![ModuleAt(c)] = @ + 1]
    /\ cpc' = [cpc EXCEPT ![c] = "done"]
    /\ \E e \in {Nil} \cup (IF "backend" \in faults THEN BackendMessages ELSE {}) :
            cres' = [cres EXCEPT ![c] = e]
    /\ NestedFrame

NextNested ==
    \E c \in CallPaths :
        \/ NestedProcess(c)
        \/ NestedBuildEx(c)
        \/ NestedCollect(c)
        \/ NestedImageBuild(c)

SpecNested == InitNested /\ [][NextNested]_vars

(***************************************************************************)
(* The module registry.  A path is the sequence of its components below    *)
(* the working directory; a manifest is named by its directory.            *)
(***************************************************************************)
RECURSIVE Clean(_)
\* A path taken as it is spelled.
CleanIdentity(p) == p

\* filepath.Clean of an absolute path below the working directory: "."
\* is dropped and ".." removes the component before it.
Clean(p) ==
    IF p = <<>> THEN <<>>
    ELSE LET front == Clean(SubSeq(p, 1, Len(p) - 1))
             last == p[Len(p)]
         IN  IF last = "." THEN front
             ELSE IF last = ".."
                  THEN (IF front = <<>> THEN <<>> ELSE SubSeq(front, 1, Len(front) - 1))
                  ELSE Append(front, last)

\* The directory the operating system reaches by walking path p from
\* directory at.
RECURSIVE Walk(_, _)
Walk(at, p) ==
    IF p = <<>> THEN at
    ELSE Walk(IF Head(p) = "." THEN at
              ELSE IF Head(p) = ".."
                   THEN (IF at = <<>> THEN at ELSE SubSeq(at, 1, Len(at) - 1))
                   ELSE Append(at, Head(p)),
              Tail(p))

\* Manifest trees.  The root manifest lies in the working directory.
\* Diamond: the root depends on A and B, A depends on B under another name.
Diamond ==
    (<<>> :> << <<"A">>, <<".", "B">> >>)
    @@ (<<"A">> :> << <<"..", "B">> >>)
    @@ (<<"B">> :> <<>>)
\* Twice: the root names B twice, in two spellings.
Twice ==
    (<<>> :> << <<"A", "..", "B">>, <<"B">> >>)
    @@ (<<"A">> :> <<>>)
    @@ (<<"B">> :> <<>>)
\* Loop: A depends on the root, which depends on A.
Loop ==
    (<<>> :> << <<"A">> >>)
    @@ (<<"A">> :> << <<"..">> >>)
    @@ (<<"B">> :> << <<"..", "A">> >>)
Trees == {Diamond, Twice, Loop}

\* The paths GetModule is called with from outside.
Spellings ==
    {<<>>, <<".">>, <<"A">>, <<".", "A">>, <<"A", "..", "B">>, <<"B">>, <<"Z">>}

Getters == 1..NumCallers
NoModule == 0
ErrCyclicDependency == <<"cyclic dependency">>

RegistryFrame ==
    UNCHANGED <<schedVars, jobVars, histVars, legacyVars, kanikoVars, digestVars,
                contextVars, nestedVars,
                deps, ctx, options, hasBuild, run, faults, prev, manifest, tree>>

InitRegistry ==
    /\ FreshProcess
    /\ NoKaniko
    /\ IdleContext
    /\ NoNested
    /\ manifest = ValidManifests
    /\ cache = [m \in Modules |-> NoDigest]
    /\ ctx = [m \in Modules |-> "d1"]
    /\ options \in {o \in OptionSets : ~o.NoCache /\ ~o.SkipHooks
                                        /\ o.Builder = "docker" /\ o.Concurrency = 1}
    /\ deps = Shared
    /\ hasBuild = TRUE
    /\ faults = {}
    /\ run = 1
    /\ prev = NoPrev
    /\ frontend = "Build"
    /\ lpc = [t \in Threads |-> "idle"]
    /\ tree \in Trees
    /\ modules = <<>>
    /\ resolving = {}
    /\ created = <<>>
    /\ gpc = [t \in Getters |-> "idle"]
    /\ garg = [t \in Getters |-> <<>>]
    /\ gcur = [t \in Getters |-> <<>>]
    /\ gstack = [t \in Getters |-> <<>>]
    /\ gret = [t \in Getters |-> NoModule]
    /\ gerr = [t \in Getters |-> Nil]

\* A caller passes a path to GetModule, which canonicalizes it.
GetModuleCall(t, p) ==
    /\ gpc[t] = "idle"
    /\ garg' = [garg EXCEPT ![t] = p]
    /\ gcur' = [gcur EXCEPT ![t] = Clean(p)]
    /\ gpc' = [gpc EXCEPT ![t] = "lookup"]
    /\ UNCHANGED <<modules, resolving, created, gstack, gret, gerr>>
    /\ RegistryFrame

\* The call of caller t returns module id to the call that made it: to
\* the caller when no call is outstanding, otherwise the next dependency
\* of the module on top of the stack is taken up.
Returned(t, id, stack) ==
    IF stack = <<>>
    THEN /\ gret' = [gret EXCEPT ![t] = id]
         /\ gpc' = [gpc EXCEPT ![t] = "ret"]
         /\ gstack' = [gstack EXCEPT ![t] = <<>>]
    ELSE /\ gstack' = [gstack EXCEPT ![t] =
                [stack EXCEPT ![Len(stack)].idx = @ + 1]]
         /\ gpc' = [gpc EXCEPT ![t] = "expand"]
         /\ UNCHANGED gret

\* The whole call of caller t fails with error e.
Failed(t, e) ==
    /\ gerr' = [gerr EXCEPT ![t] = e]
    /\ gpc' = [gpc EXCEPT ![t] = "ret"]
    /\ gstack' = [gstack EXCEPT ![t] = <<>>]
    /\ UNCHANGED gret

\* GetModule, the part under the registry lock: the interned module is
\* returned if present (a cycle error if it is marked resolving);
\* otherwise the manifest is parsed and a new Module is inserted and
\* marked resolving.
GetModule(t) ==
    LET path == gcur[t] IN
    /\ gpc[t] = "lookup"
    /\ IF path \in DOMAIN modules
       THEN /\ IF path \in resolving
               THEN Failed(t, ErrCyclicDependency)
               ELSE Returned(t, modules[path], gstack[t]) /\ UNCHANGED gerr
            /\ UNCHANGED <<modules, resolving, created>>
       ELSE IF Walk(<<>>, path) \notin DOMAIN tree
       THEN /\ Failed(t, <<"missing manifest">>)
            /\ UNCHANGED <<modules, resolving, created>>
       ELSE /\ created' = Append(created, Walk(<<>>, path))
            /\ modules' = (path :> (Len(created) + 1)) @@ modules
            /\ resolving' = resolving \cup {path}
            /\ gstack' = [gstack EXCEPT ![t] = Append(@, [path |-> path, idx |-> 1])]
            /\ gpc' = [gpc EXCEPT ![t] = "expand"]
            /\ UNCHANGED <<gret, gerr>>
    /\ UNCHANGED <<garg, gcur>>
    /\ RegistryFrame

\* GetModule, the dependency expansion: the next declared dependency is
\* joined to the module's directory and resolved; after the last one the
\* resolving mark is cleared and the module is returned.
GetModuleExpand(t) ==
    LET stack == gstack[t]
        top == stack[Len(stack)]
        declared == tree[Walk(<<>>, top.path)]
    IN
    /\ gpc[t] = "expand"
    /\ IF top.idx <= Len(declared)
       THEN /\ gcur' = [gcur EXCEPT ![t] = Clean(top.path \o declared[top.idx])]
            /\ gpc' = [gpc EXCEPT ![t] = "lookup"]
            /\ UNCHANGED <<resolving, gstack, gret>>
       ELSE /\ resolving' = resolving \ {top.path}
            /\ Returned(t, modules[top.path], SubSeq(stack, 1, Len(stack) - 1))
            /\ UNCHANGED gcur
    /\ UNCHANGED <<modules, created, garg, gerr>>
    /\ RegistryFrame

NextRegistry ==
    \E t \in Getters :
        \/ \E p \in Spellings : GetModuleCall(t, p)
        \/ GetModule(t)
        \/ GetModuleExpand(t)

SpecRegistry == InitRegistry /\ [][NextRegistry]_vars

(***************************************************************************)
(* Properties                                                              *)
(***************************************************************************)
\* Positions of a thread that owns the build of its target module.
OwnerPositions ==
    {"deps", "collect", "submit", "process", "broadcast", "storeerr", "deliver"}

\* The live threads that called Build(m) and have left the claim behind.
Callers(m) == {t \in Live : Target(t) = m /\ pc[t] \notin {"idle", "call"}}

\* C1: among any number of concurrent Build(m) calls exactly one wins
\* claim(), it is the only one that ever executes the owner's part of Build,
\* and the backend is invoked at most once for m in the run; every other
\* caller is on the waiting or reading path.
C1_AtMostOneBuild ==
    \A m \in Modules :
        /\ claims[m] <= 1
        /\ backendCalls[m] <= 1
        /\ Callers(m) # {} => claims[m] = 1
        /\ \A t \in Callers(m) : pc[t] \in OwnerPositions => t = owner[m]

\* Witness of C1: the shared module was built by the backend once while
\* another caller, having lost the claim, waits for it or has its outcome.
C1_Witness ==
    /\ backendCalls["B"] = 1
    /\ \E t \in Callers("B") : t # owner["B"] /\ pc[t] \in {"recv", "ret", "end"}
    /\ \E t \in Callers("R") : t # owner["R"] /\ pc[t] \in {"wait", "recv"}

\* C2: a status only ever moves Pending -> InProgress -> Succeeded or
\* Failed; a terminal status never changes, Pending is never re-entered and
\* never left for a terminal status directly.
C2_StatusTransitions ==
    [][\A m \in Modules :
          status'[m] # status[m] =>
              \/ status[m] = BuildStatusPending /\ status'[m] = BuildStatusInProgress
              \/ status[m] = BuildStatusInProgress /\ status'[m] \in Terminal]_vars

\* Witness of C2: one module has ended Failed and another Succeeded while a
\* late Build call on a terminal module is still to be made.
C2_Witness ==
    /\ status["B"] = BuildStatusSucceeded
    /\ status["A"] = BuildStatusFailed
    /\ status["R"] = BuildStatusFailed
    /\ \E t \in RootCallers : pc[t] = "call"

\* C3: whenever the pool job of m is submitted, running or finished, and
\* whenever the backend was called for m, every declared dependency of m is
\* Succeeded.
C3_DependenciesFirst ==
    \A m \in Modules :
        (\/ job[m] # "none"
         \/ backendCalls[m] > 0
         \/ \E t \in Callers(m) : pc[t] \in {"submit", "process"})
        => \A i \in 1..Len(Dependencies(m)) :
                status[Dependencies(m)[i]] = BuildStatusSucceeded

\* Witness of C3: the backend call of the root, which has two dependencies,
\* is in progress.
C3_Witness == job["R"] = "backend" /\ Len(Dependencies("R")) = 2

\* C4: a thread that did not win the claim gets exactly one outcome, equal
\* to the one the owner returns; no subscriber channel is sent two values.
C4_WaitersGetOwnersOutcome ==
    /\ \A t \in Live :
        /\ pc[t] # "panic"
        /\ chanSends[t] <= 1
        /\ (pc[t] \in {"ret", "end"} /\ t # owner[Target(t)])
            => ownerRet[Target(t)] = <<ret[t]>>

\* C5: the recorded error is set exactly when the status is Failed, and no
\* thread that loaded Failed finds the error pointer nil.
C5_ErrorIffFailed ==
    /\ \A m \in Modules : (err[m] # Nil) <=> (status[m] = BuildStatusFailed)
    /\ \A t \in Live : pc[t] # "panic"

\* C8: the number of modules whose doBuild is executing never exceeds the
\* pool capacity.
C8_BoundedHeavyWork == BusyWorkers <= options.Concurrency

\* Witness of C8: with capacity 1 a job is running while the owner of
\* another module is blocked in pool.Process.
C8_Witness ==
    /\ options.Concurrency = 1
    /\ BusyWorkers = 1
    /\ \E t \in Live : pc[t] = "submit"

\* A pool worker is blocked in buildDependencies, waiting for the result
\* of a job it had submitted to its own pool.
WorkerWaits(i) ==
    /\ InWorker(i)
    /\ lpc[i] = "collect"
    /\ lidx[i] <= Len(Dependencies(Target(i)))

\* C6: no state is reachable in which every worker of the pool is blocked
\* waiting for a job that no worker is left to run (so that the top-level
\* build can still return).
C6_NoPoolDeadlock ==
    ~ /\ LegacyBusy = options.Concurrency
      /\ \A i \in Invocations :
            (InWorker(i) /\ lpc[i] \in {"load", "collect", "build"})
            => /\ WorkerWaits(i)
               /\ lpc[<<"dep", Target(i), lidx[i]>>] = "queued"

\* C7: no pool worker ever waits for the result of another job submitted
\* to the same pool.
C7_WorkersDoLeafWorkOnly == \A i \in Invocations : ~WorkerWaits(i)

\* doBuild of m found the digest it computed equal to the cached digest,
\* with NoCache false.
DigestUnchanged(m) ==
    /\ compared[m] # <<>>
    /\ compared[m][1] = compared[m][2]
    /\ ~options.NoCache

C10_NoHooksOnCacheHit ==
    \A m \in Modules : DigestUnchanged(m) => hooksRun[m] = <<>>

\* Module.doBuild returned the error of Module.cacheDigest: the backend
\* had built the image and the digest record could not be written.
DigestWriteFailed(m) == jobRes[m] = <<"write digest failed">>

\* C11: a failure to write the digest record after a successful backend
\* build does not fail the build: the module does not end Failed and the
\* Build call returns nil.
C11_CacheWriteFailureTolerated ==
    \A t \in LeafCallers :
        DigestWriteFailed(Target(t)) =>
            /\ status[Target(t)] # BuildStatusFailed
            /\ pc[t] = "ret" => ret[t] = Nil

\* Every coordination goroutine of the dependencies of m has sent its
\* result on its done channel.
DependenciesDelivered(m) ==
    \A i \in 1..Len(Dependencies(m)) : pc[<<"dep", m, i>>] = "end"

\* C12: the owner of m leaves buildDependencies, and m reaches a terminal
\* status, only after the goroutine of every dependency has delivered its
\* result and every dependency is in a terminal status, also when one of
\* them has failed.
C12_SiblingsAwaited ==
    \A m \in Modules :
        (\/ status[m] \in Terminal
         \/ \E t \in Callers(m) :
                /\ t = owner[m]
                /\ pc[t] \in (OwnerPositions \ {"deps", "collect"}) \cup {"ret", "end"})
        => /\ DependenciesDelivered(m)
           /\ \A i \in 1..Len(Dependencies(m)) :
                status[Dependencies(m)[i]] \in Terminal

\* Witness of C12: of the two independent dependencies of the root, A
\* failed and B was built to the end; the root is Failed with one entry.
C12_Witness ==
    /\ deps = Fan
    /\ status["A"] = BuildStatusFailed
    /\ status["B"] = BuildStatusSucceeded
    /\ backendCalls["B"] = 1
    /\ status["R"] = BuildStatusFailed
    /\ Len(multi[owner["R"]]) = 1

\* The indices of the dependencies of m that have ended Failed.
FailedDependencies(m) ==
    {i \in 1..Len(Dependencies(m)) : status[Dependencies(m)[i]] = BuildStatusFailed}

\* fmt.Errorf("dependency '%s': %v", dir, cause)
DependencyEntry(dir, cause) == <<"dependency '", dir, "': ">> \o cause

\* The owner of m has left collectErrors.
Collected(t) ==
    /\ t = owner[Target(t)]
    /\ \/ pc[t] = "collect" /\ idx[t] > Len(Dependencies(Target(t)))
       \/ pc[t] \in (OwnerPositions \ {"deps", "collect"}) \cup {"ret", "end"}

\* C13: the error aggregated by the owner of m has exactly one entry per
\* failing dependency, "dependency '<dir>': <cause>" with the cause being
\* the error the dependency's own build ended with, and no other entry;
\* when there is at least one, it is the error Build(m) returns.
C13_OneEntryPerFailedDependency ==
    \A t \in Live : Collected(t) =>
        LET m == Target(t) IN
        /\ Len(multi[t]) = Cardinality(FailedDependencies(m))
        /\ \A i \in FailedDependencies(m) :
            \E j \in 1..Len(multi[t]) :
                multi[t][j] =
                    DependencyEntry(Dependencies(m)[i], ownerRet[Dependencies(m)[i]][1])
        /\ (multi[t] # <<>> /\ pc[t] \in {"broadcast", "storeerr", "deliver", "ret", "end"})
            => ret[t] = MultiError(multi[t])

\* The declared position of the dependency an entry of the aggregated
\* error names.
DeclaredPosition(m, entry) ==
    CHOOSE i \in 1..Len(Dependencies(m)) : Dependencies(m)[i] = entry[1]

\* C14: the entries of the aggregated dependency error are in the declared
\* order of the dependencies, whatever order the builds complete in, and
\* the error returned lists them in that order.
C14_DeclaredOrder ==
    \A t \in Live : t = owner[Target(t)] =>
        /\ \A j, k \in 1..Len(multi[t]) :
            j < k => DeclaredPosition(Target(t), multi[t][j])
                        < DeclaredPosition(Target(t), multi[t][k])
        /\ (multi[t] # <<>> /\ pc[t] \in {"broadcast", "storeerr", "deliver", "ret", "end"})
            => ret[t] = MultiError(multi[t])

\* Witness of C14: B, declared second, failed first and A, declared first
\* and depending on B, failed after it; the root returned both entries.
C14_Witness ==
    /\ deps = Shared
    /\ status["B"] = BuildStatusFailed
    /\ status["A"] = BuildStatusFailed
    /\ pc[owner["R"]] = "ret"
    /\ Len(multi[owner["R"]]) = 2
    /\ multi[owner["R"]][1][1] = "A"

\* No hook, context assembly or backend call of m was executed, and no
\* pool job of m exists.
NoOwnWork(m) ==
    /\ job[m] = "none"
    /\ hooksRun[m] = <<>>
    /\ compared[m] = <<>>
    /\ backendCalls[m] = 0

\* C15: a module with a Failed dependency never executes hooks, context
\* assembly or backend call of its own and never ends Succeeded, and when
\* the run has come to its end (no thread can take a step) it is Failed.
C15_FailurePropagates ==
    \A m \in Modules : FailedDependencies(m) # {} =>
        /\ NoOwnWork(m)
        /\ status[m] # BuildStatusSucceeded
        /\ ~(ENABLED Next) => status[m] = BuildStatusFailed

FoundTerminal(t) ==
    /\ t # owner[Target(t)]
    /\ chanSends[t] = 0
    /\ pc[t] \in {"loaderr", "panic", "ret", "end"}

\* C17: a Build call that finds the module Succeeded returns nil and one
\* that finds it Failed returns the recorded error; neither claims the
\* module again nor causes another backend call.
C17_TerminalIsFinal ==
    \A t \in Live : FoundTerminal(t) =>
        LET m == Target(t) IN
        /\ pc[t] # "panic"
        /\ pc[t] \in {"ret", "end"} => ret[t] = err[m]
        /\ status[m] = BuildStatusSucceeded => ret[t] = Nil
        /\ claims[m] = 1
        /\ backendCalls[m] <= 1

\* C18: a module no thread has claimed is Pending, and whenever a Build
\* call has returned, to the owner or to a thread that lost the claim, the
\* module is Succeeded if nil was returned and Failed if an error was.
C18_StatusMatchesReturn ==
    /\ \A m \in Modules : claims[m] = 0 => status[m] = BuildStatusPending
    /\ \A t \in Live : pc[t] \in {"ret", "end"} =>
        /\ ret[t] = Nil => status[Target(t)] = BuildStatusSucceeded
        /\ ret[t] # Nil => status[Target(t)] = BuildStatusFailed

\* Witness of C18: the owner of the root and a caller that waited for it
\* have both returned its error, and the goroutine that built B returned
\* nil.
C18_Witness ==
    /\ \A t \in RootCallers : pc[t] = "ret" /\ ret[t] # Nil
    /\ \E t \in RootCallers : t # owner[Root] /\ chanSends[t] = 1
    /\ \E t \in Callers("B") : t = owner["B"] /\ pc[t] = "end" /\ ret[t] = Nil

\* C19: outside the critical section of broadcast a module in a terminal
\* status holds no subscriber (broadcast leaves the subscriber list
\* empty), and its error is stored exactly when it is Failed.
C19_BroadcastClearsSubscribers ==
    \A m \in Modules :
        (status[m] \in Terminal /\ subscribersL[m] = NoThread) =>
            /\ subscribers[m] = <<>>
            /\ err[m] # Nil <=> status[m] = BuildStatusFailed

\* C20: whenever a backend is invoked for a module, it is the local one
\* (docker) for the selector local ("docker"), the cluster one (kaniko) for
\* cluster ("kaniko") and, for auto (""), the local one if the local daemon
\* is reachable and the cluster one if it is not.
C20_BackendSelection ==
    \A m \in Modules : backendCalls[m] > 0 =>
        /\ options.Builder = "docker" => Backend(options.Builder) = "docker"
        /\ options.Builder = "kaniko" => Backend(options.Builder) = "kaniko"
        /\ options.Builder = "" =>
            Backend(options.Builder) =
                IF DaemonDown \in faults THEN "kaniko" ELSE "docker"

\* The Builder value is none of those doBuild has a case for.
UnknownBuilder == Backend(options.Builder) = ""

\* C21: with an unknown Builder value no backend is invoked for a module,
\* its digest record stays what it was when the run began, the module does
\* not end Succeeded, and a build that got as far as the backend selection
\* has failed with the unknown-builder error.
C21_UnknownBuilderFails ==
    \A m \in Modules : UnknownBuilder =>
        /\ backendCalls[m] = 0
        /\ cache[m] = prev[m].record
        /\ status[m] # BuildStatusSucceeded
        /\ (status[m] = BuildStatusFailed /\ compared[m] # <<>>)
            => ownerRet[m] = <<<<"unknown builder '", options.Builder, "'">>>>

\* C22 as claimed: when buildKaniko has returned, no executor pod of the
\* build is left in the cluster.
C22_NoPodLeftBehind == kpc = "done" => kpods = 0

\* C22 as amended: when buildKaniko has returned after creating the pod,
\* exactly one pods.Delete request was issued for it, on whichever path the
\* call ended, and the pod is left only if that request failed; without a
\* pod no request is issued.
C22_DeleteRequestedOnEveryPath ==
    /\ kpc = "done" =>
        /\ Len(kdeletes) <= 1
        /\ kpods > 0 => kdeletes = <<FALSE>>
        /\ kdeletes = <<TRUE>> => kpods = 0
    /\ (kpc \in {"wait", "gzip", "cred", "exec", "result", "delete"})
        => kpods = 1 /\ kdeletes = <<>>
    /\ kpc \in {"config", "create"} => kpods = 0 /\ kdeletes = <<>>

\* Witness of C22: the credential copy failed before the builder was
\* started, and the pod was deleted before buildKaniko returned the error.
C22_Witness ==
    /\ kpc = "done"
    /\ kerr = <<"copy credentials failed">>
    /\ kexec = "none"
    /\ kdeletes = <<TRUE>>
    /\ kpods = 0

\* C23: when the in-pod builder exited with a non-zero code and stderr has
\* a non-empty line, buildKaniko returns the last non-empty stderr line.
C23_LastStderrLine ==
    (kpc = "done" /\ kexec = "exit" /\ LastLine(kstderr) # <<>>)
        => kerr = LastLine(kstderr)

\* The manifest of m declares a build (docker block and image name) whose
\* Dockerfile does not exist.
MissingDockerfile(m) ==
    /\ manifest[m].exists
    /\ manifest[m].docker
    /\ manifest[m].name # ""
    /\ ~manifest[m].dockerfile

\* The error message holds the token.
Contains(msg, token) == \E k \in 1..Len(msg) : msg[k] = token

\* C24: a BuildEx call for a manifest whose Dockerfile is missing never gets
\* past loadSpec: none of its dependencies is submitted, no backend is
\* called for the module, and it returns an error containing "missing
\* Dockerfile"; when the manifest is the root's, no backend is called at all.
C24_MissingDockerfileRejected ==
    \A i \in Invocations : MissingDockerfile(Target(i)) =>
        /\ lpc[i] \in {"idle", "queued", "load", "done"}
        /\ lpc[i] = "done" => Contains(lres[i], "missing Dockerfile at '")
        /\ \A k \in 1..Len(Dependencies(Target(i))) :
                lpc[<<"dep", Target(i), k>>] = "idle"
        /\ backendCalls[Target(i)] = 0
        /\ i = LegacyTop => \A m \in Modules : backendCalls[m] = 0

\* Witness of C24: the root, which has dependencies, was rejected for its
\* missing Dockerfile.
C24_Witness ==
    /\ MissingDockerfile(Root)
    /\ Len(Dependencies(Root)) = 2
    /\ lpc[LegacyTop] = "done"
    /\ Contains(lres[LegacyTop], "missing Dockerfile at '")

\* The manifest of m is "build: {}": a build block with neither image name
\* nor docker block.
EmptyBuildBlock(m) ==
    /\ manifest[m].exists
    /\ ~manifest[m].docker
    /\ manifest[m].name = ""

\* C25: a BuildEx call for a manifest with an empty build block is
\* rejected with the missing-image-name error and calls no backend.
C25_MissingImageNameRejected ==
    \A i \in Invocations : EmptyBuildBlock(Target(i)) =>
        /\ lpc[i] \in {"idle", "queued", "load", "done"}
        /\ lpc[i] = "done" => lres[i] = <<"missing image name">>
        /\ backendCalls[Target(i)] = 0

\* C26: when a manifest of the graph declares a dependency that has no
\* manifest, the BuildEx call for it returns "dependency N: missing
\* kindest.yaml" with N the declared position, and no backend call of any
\* module has been made.
C26_MissingDependencyDetectedFirst ==
    \A i \in Invocations :
        (Verify(Target(i)) = Nil /\ MissingDependencies(Target(i)) # {}) =>
            /\ lpc[i] = "done" =>
                \E k \in MissingDependencies(Target(i)) :
                    lres[i] = <<"dependency ", k, ": missing kindest.yaml">>
            /\ \A m \in Modules : backendCalls[m] = 0

\* The commands of hooksRun[m], without their exit statuses.
CommandsRun(m) == [i \in 1..Len(hooksRun[m]) |-> hooksRun[m][i].command]

\* The label doBuild puts on the failure of a hook command.
PhaseLabel(command) ==
    IF \E i \in 1..Len(Before) : Before[i] = command
    THEN "pre-build hook failure: "
    ELSE "post-build hook failure: "

\* C27: the hook commands run in their declared order, pre-build before
\* post-build, and a command that exits non-zero is the last one executed:
\* the job has ended with the error labelled with the phase of that command,
\* after a pre-build failure the digests were never compared and the backend
\* was never called, and the module does not succeed: the owner returns the
\* labelled error and the status stored is Failed.
C27_HookFailureAborts ==
    \A m \in Modules :
        /\ \E n \in 0..Len(Before \o After) :
                CommandsRun(m) = SubSeq(Before \o After, 1, n)
        /\ \A i \in 1..Len(hooksRun[m]) :
            hooksRun[m][i].exit # 0 =>
                LET label == PhaseLabel(hooksRun[m][i].command) IN
                /\ i = Len(hooksRun[m])
                /\ job[m] \in {"finished", "none"}
                /\ jobRes[m] = <<label, "exit status 1">>
                /\ label = "pre-build hook failure: " =>
                        compared[m] = <<>> /\ backendCalls[m] = 0
                /\ ownerRet[m] \in {<<>>, <<jobRes[m]>>}
                /\ status[m] \in {BuildStatusInProgress, BuildStatusFailed}
                /\ owner[m] # NoThread /\ pc[owner[m]] = "ret" =>
                        status[m] = BuildStatusFailed

\* The first of two pre-build commands exited non-zero and the build has
\* returned.
C27_Witness ==
    /\ Len(hooksRun[Leaf]) = 1
    /\ hooksRun[Leaf][1] = [command |-> Before[1], exit |-> 1]
    /\ status[Leaf] = BuildStatusFailed
    /\ pc[owner[Leaf]] = "ret"

\* C28: with SkipHooks set no hook command of any module is ever executed.
C28_SkipHooksRunsNoCommand ==
    options.SkipHooks => \A m \in Modules : hooksRun[m] = <<>>

\* With SkipHooks set the backend built the image and the build succeeded.
C28_Witness ==
    /\ options.SkipHooks
    /\ backendCalls[Leaf] = 1
    /\ status[Leaf] = BuildStatusSucceeded

\* CachedDigest reported "module is not cached" in the job of module m: the
\* record is missing or could not be read.
NotCached(m) == compared[m] # <<>> /\ compared[m][2] = NoDigest

C30_DigestWriteAtomic ==
    \A e \in Engines :
        dseen[e] # <<>> =>
            \/ dseen[e] = <<"", ErrModuleNotCached>>
            \/ dseen[e][2] = Nil /\ dseen[e][1] \in Digests

\* C35: the digest record of a module changes only in a run in which the
\* backend was called for it, and when the module has ended Failed the
\* record is the one the run found.
C35_FailedBuildKeepsRecord ==
    \A m \in Modules :
        /\ cache[m] # prev[m].record => backendCalls[m] = 1
        /\ status[m] = BuildStatusFailed => cache[m] = prev[m].record

\* C37: a subscriber channel (capacity 1) is sent at most one value, so it
\* never holds more than one, and a thread holding the subscriber lock of
\* a module is the owner inside broadcast, which has nothing to wait for.
C37_NoBlockingUnderLock ==
    /\ \A u \in Live : Len(chanBuf[u]) <= 1 /\ chanSends[u] <= 1
    /\ \A m \in Modules :
        subscribersL[m] # NoThread =>
            /\ subscribersL[m] = owner[m]
            /\ pc[owner[m]] \in {"storeerr", "deliver"}

\* broadcast has sent the outcome to a subscriber that has not received it
\* yet, and has released the lock.
C37_Witness ==
    \E u \in Live :
        /\ pc[u] = "recv"
        /\ chanClosed[u]
        /\ Len(chanBuf[u]) = 1
        /\ subscribersL[Target(u)] = NoThread
        /\ u \in Subscribed(Target(u))

\* C38: a module that is Succeeded has every declared dependency
\* Succeeded.
C38_SucceededClosure ==
    \A m \in Modules :
        status[m] = BuildStatusSucceeded =>
            \A i \in 1..Len(Dependencies(m)) :
                status[Dependencies(m)[i]] = BuildStatusSucceeded

\* The root, which has two dependencies, one of them shared, is Succeeded.
C38_Witness ==
    /\ status[Root] = BuildStatusSucceeded
    /\ Len(Dependencies(Root)) = 2
    /\ Dependencies("A") # <<>>

\* The modules reachable from m through declared dependencies.
RECURSIVE DependencyClosure(_)
DependencyClosure(m) ==
    UNION {{Dependencies(m)[i]} \cup DependencyClosure(Dependencies(m)[i]) :
            i \in 1..Len(Dependencies(m))}

\* C39: when a top-level Build(root) call has returned, the root and every
\* module of its dependency graph are in a terminal status and every
\* goroutine started for a dependency has delivered its result.
C39_NothingInProgressAfterReturn ==
    \A t \in RootCallers :
        pc[t] = "ret" =>
            /\ \A m \in {Root} \cup DependencyClosure(Root) : status[m] \in Terminal
            /\ \A e \in Live \cap Edges : pc[e] = "end"

\* A top-level call has returned an error while a dependency succeeded and
\* another failed.
C39_Witness ==
    \E t \in RootCallers :
        /\ pc[t] = "ret"
        /\ ret[t] # Nil
        /\ \E m \in DependencyClosure(Root) : status[m] = BuildStatusSucceeded
        /\ \E m \in DependencyClosure(Root) : status[m] = BuildStatusFailed

\* The owner of m has completed: its Build call, deferred broadcast
\* included, is over.
OwnerDone(m) == owner[m] # NoThread /\ pc[owner[m]] \in {"ret", "end"}

\* C36: a thread that found the module InProgress and calls
\* WaitForCompletion has the outcome eventually once the owner has
\* completed, wherever the owner's broadcast fell relative to its
\* subscribe: before it, or after it while the thread was still about to
\* subscribe.
C36_NoLostWakeup ==
    \A t \in RootCallers \cup Edges :
        (pc[t] \in {"wait", "recv"} /\ OwnerDone(Target(t))) ~> (pc[t] = "ret")

\* A thread subscribed after the broadcast had stored the terminal status:
\* subscribe itself sent the outcome (the channel is not closed), and the
\* thread has received it.
C36_Witness ==
    \E t \in Live :
        /\ pc[t] = "ret"
        /\ chanSends[t] = 1
        /\ ~chanClosed[t]
        /\ ownerRet[Target(t)] # <<>>

\* The files the Dockerfile's COPY and ADD lines take from the context:
\* every source that is a file, and every file under a source that is a
\* directory.
Referenced(lines) ==
    {f \in FilePaths :
        \E k \in 1..Len(lines) :
            /\ lines[k].op \in {"COPY", "ADD"}
            /\ ~lines[k].from
            /\ \E n \in 1..Len(lines[k].sources) :
                    lines[k].sources[n] \in Prefixes(f)}

Excluded(e) == \E q \in Prefixes(e) : Match(ignore, q)

OnCycle ==
    {m \in Modules :
        \E c \in DOMAIN cpc, d \in DOMAIN cpc :
            /\ Len(c) < Len(d)
            /\ SubSeq(d, 1, Len(c)) = c
            /\ ModuleAt(c) = m
            /\ ModuleAt(d) = m}

\* C32: on manifests that declare a cycle no module of the cycle is ever
\* built, and when the run has come to rest (no call can take a step) the
\* top-level call has returned a cyclic-dependency error.
C32_CycleRejected ==
    /\ \A m \in OnCycle : backendCalls[m] = 0
    /\ ~(ENABLED NextNested) =>
            /\ cpc[<<>>] = "done"
            /\ cres[<<>>] # Nil
            /\ cres[<<>>][1] = "cyclic dependency"

\* C31: every manifest has at most one Module, every GetModule call that
\* returns a Module returns the one of the manifest its path denotes (so
\* two calls whose paths denote the same manifest return the same Module),
\* and no registry entry is ever removed or replaced.
C31_RegistryInterns ==
    /\ [](/\ \A i, j \in 1..Len(created) : created[i] = created[j] => i = j
          /\ \A t \in DOMAIN gret :
                gret[t] # NoModule => created[gret[t]] = Walk(<<>>, garg[t])
          /\ \A a, b \in DOMAIN gret :
                (/\ gret[a] # NoModule
                 /\ gret[b] # NoModule
                 /\ Walk(<<>>, garg[a]) = Walk(<<>>, garg[b])) => gret[a] = gret[b])
    /\ [][\A k \in DOMAIN modules :
                k \in DOMAIN modules' /\ modules'[k] = modules[k]]_vars

\* Two callers that passed different spellings of one manifest path hold
\* the same Module, which a parent manifest also depends on.
C31_Witness ==
    \E a, b \in DOMAIN gret :
        /\ a # b
        /\ garg[a] # garg[b]
        /\ Walk(<<>>, garg[a]) = Walk(<<>>, garg[b])
        /\ gret[a] # NoModule
        /\ gret[a] = gret[b]
        /\ Len(created) > 1

====
